---------------------------- MODULE Spec2Model ----------------------------
(***************************************************************************)
(* A model of the AI-Employee vault: the approval gate and the gated       *)
(* operations of instagram_mcp_server.py, the watcher core of              *)
(* base_watcher.py with its gmail / whatsapp / instagram adapters, and the *)
(* Task Mover of watcher.py.  Files are modelled by their text, file names *)
(* by their characters; the string functions below do what the Python      *)
(* string methods and regular expressions of the source do.  A string of   *)
(* the module cannot hold a backquote or a character outside ASCII: the    *)
(* templates of the source are written with ' for the backquote, - for the *)
(* dash and -> for the arrow (no code of the repository examines them).    *)
(***************************************************************************)
EXTENDS Integers, Sequences, FiniteSets, TLC

(***************************************************************************)
(* Python string primitives                                                *)
(***************************************************************************)
LowerAlpha == "abcdefghijklmnopqrstuvwxyz"
UpperAlpha == "ABCDEFGHIJKLMNOPQRSTUVWXYZ"
Digits     == "0123456789"

Ch(s, i) == SubSeq(s, i, i)

CharsOf(s) == { Ch(s, i) : i \in 1..Len(s) }

LowerSet == CharsOf(LowerAlpha)
UpperSet == CharsOf(UpperAlpha)
DigitSet == CharsOf(Digits)
\* the characters str.strip() removes and \s matches (those the model uses)
SpaceSet == {" ", "\t", "\n", "\r"}

IndexIn(c, alpha) == CHOOSE i \in 1..Len(alpha) : Ch(alpha, i) = c

\* str.upper() / str.lower() of one character
UpperOf == [c \in LowerSet |-> Ch(UpperAlpha, IndexIn(c, LowerAlpha))]
LowerOf == [c \in UpperSet |-> Ch(LowerAlpha, IndexIn(c, UpperAlpha))]
UpperCh(c) == IF c \in LowerSet THEN UpperOf[c] ELSE c
LowerCh(c) == IF c \in UpperSet THEN LowerOf[c] ELSE c

RECURSIVE Upper(_)
Upper(s) ==
    IF Len(s) = 0 THEN ""
    ELSE IF Len(s) = 1 THEN UpperCh(s)
    ELSE LET h == Len(s) \div 2
         IN  Upper(SubSeq(s, 1, h)) \o Upper(SubSeq(s, h + 1, Len(s)))

RECURSIVE Lower(_)
Lower(s) ==
    IF Len(s) = 0 THEN ""
    ELSE IF Len(s) = 1 THEN LowerCh(s)
    ELSE LET h == Len(s) \div 2
         IN  Lower(SubSeq(s, 1, h)) \o Lower(SubSeq(s, h + 1, Len(s)))

\* s.startswith(p), s.endswith(p), p in s
StartsWith(s, p) == Len(p) <= Len(s) /\ SubSeq(s, 1, Len(p)) = p
EndsWith(s, p)   == Len(p) <= Len(s) /\ SubSeq(s, Len(s) - Len(p) + 1, Len(s)) = p
Contains(s, p)   ==
    \E i \in 1..(Len(s) - Len(p) + 1) : SubSeq(s, i, i + Len(p) - 1) = p

\* p in s.lower(), for a lower-case p: lower() maps character by character, so
\* p occurs in s.lower() at i exactly when the lower-cased slice of s at i is p
InLower(p, s) ==
    LET firsts == { Ch(p, 1), UpperCh(Ch(p, 1)) }
    IN  \E i \in 1..(Len(s) - Len(p) + 1) :
            /\ Ch(s, i) \in firsts
            /\ \A k \in 2..Len(p) : LowerCh(Ch(s, i + k - 1)) = Ch(p, k)

\* s.find(p, from): the first index >= from where p occurs, 0 when there is none
\* the first index in lo..hi where p occurs in s, 0 when there is none
\* (searched a stretch of 64 positions at a time)
RECURSIVE FindIn(_, _, _, _)
FindIn(s, p, lo, hi) ==
    IF lo > hi THEN 0
    ELSE LET top == IF hi < lo + 63 THEN hi ELSE lo + 63
             hits == { i \in lo..top : SubSeq(s, i, i + Len(p) - 1) = p }
         IN  IF hits # {} THEN CHOOSE i \in hits : \A j \in hits : i <= j
             ELSE FindIn(s, p, top + 1, hi)

Find(s, p, from) == FindIn(s, p, from, Len(s) - Len(p) + 1)

\* s[:n]
Trunc(s, n) == IF Len(s) <= n THEN s ELSE SubSeq(s, 1, n)

\* s.strip(chars): drop the leading and trailing characters that are in cs
RECURSIVE FirstKept(_, _, _)
FirstKept(s, cs, i) ==
    IF i > Len(s) \/ Ch(s, i) \notin cs THEN i ELSE FirstKept(s, cs, i + 1)

RECURSIVE LastKept(_, _, _)
LastKept(s, cs, i) ==
    IF i < 1 \/ Ch(s, i) \notin cs THEN i ELSE LastKept(s, cs, i - 1)

StripSet(s, cs) == SubSeq(s, FirstKept(s, cs, 1), LastKept(s, cs, Len(s)))

Strip(s) == StripSet(s, SpaceSet)

\* s.replace(old, new) for a one-character old
RECURSIVE ReplaceCh(_, _, _)
ReplaceCh(s, old, new) ==
    IF Len(s) = 0 THEN ""
    ELSE IF Len(s) = 1 THEN (IF s = old THEN new ELSE s)
    ELSE LET h == Len(s) \div 2
         IN  ReplaceCh(SubSeq(s, 1, h), old, new)
                \o ReplaceCh(SubSeq(s, h + 1, Len(s)), old, new)

\* s.split("\n") as str.splitlines() does it: no empty last line after a final "\n"
RECURSIVE SplitLines(_)
SplitLines(s) ==
    IF Len(s) = 0 THEN << >>
    ELSE LET nl == Find(s, "\n", 1)
         IN  IF nl = 0 THEN << s >>
             ELSE << SubSeq(s, 1, nl - 1) >> \o SplitLines(SubSeq(s, nl + 1, Len(s)))

\* sep.join(parts)
RECURSIVE Join(_, _)
Join(parts, sep) ==
    IF Len(parts) = 0 THEN ""
    ELSE IF Len(parts) = 1 THEN parts[1]
    ELSE parts[1] \o sep \o Join(Tail(parts), sep)

(***************************************************************************)
(* Bounds of the model and the inputs the environment draws from           *)
(***************************************************************************)
MaxClock == 1          \* the clock shows the seconds 0..MaxClock
MaxDash  == 1          \* the dashboard holds at most this many entries
MaxFiles == 2          \* files in Pending_Approval + Approved + Rejected

None == "None"         \* Python's None (no file is called so)
NoArg == [op |-> "none"]
NoRet == [op |-> "none"]

\* usernames / subjects the orchestrator passes to the tools
Users == {"alice", "al."}
\* (action_type, subject) pairs passed to create_approval_request
Requests == { <<"DM", "alice">>, <<"post", "feed-post">>, <<"story", "alice">> }
\* (action_type, subject) pairs passed to check_approval_status
Checks == { <<"DM", "alice">>, <<"dm", "al.">>, <<"POST", "">>,
            <<"post", "feed-post">>, <<"POST", "promo">> }
Details == "Send DM: hi"
\* image_path arguments of post_to_feed: none given, a missing file, a file
Images == {"", "/tmp/missing.jpg", "/tmp/pic.jpg"}
ExistingImages == {"/tmp/pic.jpg"}

\* files a human may put into Approved by hand: <<name, text, readable>>
HumanFiles ==
    { <<"APPROVAL_INSTAGRAM_DM.md", "---\nstatus: approved\n---\n", TRUE>>,
      <<"APPROVAL_INSTAGRAM_POST.md", "---\nstatus: rejected\n---\n", TRUE>>,
      <<"approval_instagram_post_x.md", "---\nstatus: APPROVED\n---\n", FALSE>>,
      <<"notes_alice.md", "---\nstatus: APPROVED\n---\n", TRUE>>,
      <<"approval_instagram_dm_ALICE.txt", "---\nstatus: approved\n---\n", TRUE>> }

(***************************************************************************)
(* Time: datetime.now() rendered by strftime                               *)
(***************************************************************************)
\* "%Y-%m-%d %H:%M:%S" of second t
NowStr(t) == "2026-01-01 10:00:0" \o Ch(Digits, t + 1)
\* "%Y%m%d_%H%M%S" of second t
TsFile(t) == "20260101_10000" \o Ch(Digits, t + 1)

(***************************************************************************)
(* Directories: a function from the names of the files present to their    *)
(* text                                                                    *)
(***************************************************************************)
EmptyDir == [n \in {} |-> ""]
Put(dir, name, text) ==
    [n \in (DOMAIN dir) \cup {name} |-> IF n = name THEN text ELSE dir[n]]
Del(dir, name) == [n \in (DOMAIN dir) \ {name} |-> dir[n]]

\* Path.write_text / open(path, "w") + write: the outcome is "ok" or "fail"
\* (open() raises OSError: nothing is written)
WriteOutcomes == {"ok", "fail"}
WriteText(dir, name, text, outcome) ==
    IF outcome = "ok" THEN Put(dir, name, text) ELSE dir

\* the orders in which a directory listing can return the names of S
Orders(S) ==
    { o \in [1..Cardinality(S) -> S] : \A i, j \in 1..Cardinality(S) : o[i] = o[j] => i = j }

VARIABLES
    clock,           \* the wall clock, in seconds
    dashboard,       \* Dashboard.md.md: the chunks appended to it, in order
    approvedExists,  \* APPROVED_DIR.exists()
    approved,        \* AI_Employee/Approved
    unreadable,      \* the names in Approved whose read_text() raises
    pending,         \* AI_Employee/Pending_Approval
    rejected,        \* AI_Employee/Rejected
    DRY_RUN,         \* the server's DRY_RUN flag, read from the environment at start
    call,            \* the gated tool call in flight (awaiting the browser), or Idle
    out,             \* the response of a tool on its way to the client, or NoOut
    fresh,           \* history: the request files written since the human last acted
    needs_action,    \* AI_Employee/Needs_Action
    done,            \* AI_Employee/Done
    kind,            \* which watcher runs: "gmail", "whatsapp" or "instagram"
    _processed_ids,  \* the watcher's set of handled dedup keys
    wpc,             \* the watcher's position: "sleep", "process" or "stopped"
    batch,           \* the items of the fetched batch not yet processed
    created,         \* the `created` list of the cycle: the file names written
    written,         \* history: <<dedup key, file name>> of each successful write
    wlog,            \* the watch loop's last warning or error of the cycle ("": none)
    writing,         \* the file process_item has open for writing, or NoFile
    mpc,             \* the Mover's position: "sleep", "scan", "move" or "stopped"
    candidates,      \* the sorted candidates of the scan not yet processed
    processed,       \* the `processed` list of the scan
    mlog,            \* what the last process_file logged last
    fnArg,           \* the arguments of a function applied on its own, or NoArg
    fnRet,           \* what the function applied to fnArg returned, or NoRet
    holder,          \* the process that holds the browser: "server", "whatsapp", "instagram"
    SESSION_MARKER,  \* the session-ok marker file exists
    _ctx,            \* the browser context: "none" or "open"
    _pw,             \* the automation engine: "none", "started" or "stopped"
    spc,             \* the position of the holder in its session handling
    closes,          \* history: calls of close() on the context since it was launched
    stops,           \* history: calls of stop() on the engine since it was started
    sres,            \* what the browser operation returned, or NoRes
    waited,          \* how the latest login or QR wait ended, or "none"
    RESET_SESSION,   \* the process was started with --reset-session
    fetched          \* history: what the latest Gmail fetch_items met

approvalVars == << approvedExists, approved, unreadable, pending, rejected, DRY_RUN,
                   call, out, fresh >>
gateVars == << dashboard, approvalVars >>
watcherVars == << kind, _processed_ids, wpc, batch, created, written, wlog, writing >>
moverVars == << mpc, candidates, processed, mlog >>
taskVars == << needs_action, done, watcherVars, moverVars >>
pureVars == << fnArg, fnRet >>
sessionVars ==
    << holder, SESSION_MARKER, _ctx, _pw, spc, closes, stops, sres, waited,
       RESET_SESSION >>
vars == << clock, gateVars, taskVars, pureVars, sessionVars, fetched >>

(***************************************************************************)
(* instagram_mcp_server.py: vault helpers                                  *)
(***************************************************************************)
SlugLen == 60

\* re.sub(r"[^a-zA-Z0-9_-]", "_", text)
RECURSIVE SlugChars(_)
SlugChars(s) ==
    IF Len(s) = 0 THEN ""
    ELSE IF Len(s) = 1
         THEN (IF s \in LowerSet \cup UpperSet \cup DigitSet \cup {"_", "-"} THEN s ELSE "_")
    ELSE LET h == Len(s) \div 2
         IN  SlugChars(SubSeq(s, 1, h)) \o SlugChars(SubSeq(s, h + 1, Len(s)))

_slug(text) == Trunc(StripSet(SlugChars(text), {"_"}), SlugLen)

\* APPROVED_DIR.glob("*.md")
GlobMd(dir) == { n \in DOMAIN dir : EndsWith(n, ".md") }

\* a find_approval loop that returns the first file whose name matches, without
\* reading it (a faulty variant, to test the properties of the lookup)
RECURSIVE FindApprovalLoopUnread(_, _, _, _)
FindApprovalLoopUnread(order, says, prefix, subject) ==
    IF order = << >> THEN None
    ELSE LET f == Head(order)
             fname_upper == Upper(f)
             rest == FindApprovalLoopUnread(Tail(order), says, prefix, subject)
         IN  IF ~StartsWith(fname_upper, prefix) THEN rest
             ELSE IF /\ subject # ""
                     /\ ~Contains(fname_upper, Upper(_slug(subject)))
                     /\ fname_upper # prefix \o ".MD"
                  THEN rest
             ELSE f

\* the loop of find_approval over the listing `order`
\* `says[f]`: f.read_text() does not raise and "status: approved" is in its
\* lower-cased text
RECURSIVE FindApprovalLoop(_, _, _, _)
FindApprovalLoop(order, says, prefix, subject) ==
    IF order = << >> THEN None
    ELSE LET f == Head(order)
             fname_upper == Upper(f)
             rest == FindApprovalLoop(Tail(order), says, prefix, subject)
         IN  IF ~StartsWith(fname_upper, prefix) THEN rest
             ELSE IF /\ subject # ""
                     /\ ~Contains(fname_upper, Upper(_slug(subject)))
                     /\ fname_upper # prefix \o ".MD"
                  THEN rest
             ELSE IF says[f] THEN f
             ELSE rest

\* f.read_text(encoding="utf-8", errors="ignore").lower() contains the marker
SaysApproved(dir, unread, f) ==
    f \notin unread /\ InLower("status: approved", dir[f])

\* a find_approval that looks for the record in Pending_Approval (a faulty
\* variant, to test that only Approved grants)
FindApprovalPending(action_type, subject) ==
    LET says == [f \in GlobMd(pending) |-> SaysApproved(pending, {}, f)]
    IN  { FindApprovalLoop(o, says, "APPROVAL_INSTAGRAM_" \o Upper(action_type), subject) :
            o \in Orders(GlobMd(pending)) }

\* find_approval(action_type, subject): the files it can return (None: no file),
\* one for each order the glob can list Approved in
FindApproval(action_type, subject) ==
    IF ~approvedExists THEN {None}
    ELSE LET says == [f \in GlobMd(approved) |-> SaysApproved(approved, unreadable, f)]
         IN  { FindApprovalLoop(o, says, "APPROVAL_INSTAGRAM_" \o Upper(action_type), subject) :
                 o \in Orders(GlobMd(approved)) }

\* the text append_dashboard(entry) writes
DashLine(entry, t) ==
    "\n- [" \o NowStr(t) \o "] " \o entry \o " - Agent: Instagram MCP Server"

\* append_dashboard(entry): ok is FALSE when the append raises (the exception
\* is caught and logged as a warning)
AppendDashboard(dash, entry, t, ok) ==
    IF ok THEN Append(dash, DashLine(entry, t)) ELSE dash

\* what append_dashboard logs: "Dashboard: ..." or "Could not update dashboard: ..."
DashLog(ok) == IF ok THEN "written" ELSE "failed"

\* a file name without the INSTAGRAM part of the prefix (a faulty variant, to
\* test the properties of the approval flow)
ApprovalFileNameShort(action_upper, subject) ==
    "APPROVAL_" \o action_upper \o "_" \o _slug(subject) \o ".md"

\* a file name that carries the second of the request (a faulty variant, to
\* test that one request pair has one file)
ApprovalFileNameStamped(action_upper, subject) ==
    "APPROVAL_INSTAGRAM_" \o action_upper \o "_" \o _slug(subject) \o "_"
        \o TsFile(clock) \o ".md"

\* the file create_approval_request writes
ApprovalFileName(action_upper, subject) ==
    "APPROVAL_INSTAGRAM_" \o action_upper \o "_" \o _slug(subject) \o ".md"

HumanAction(action_upper, subject) ==
    IF action_upper = "DM" THEN "Send DM to @" \o subject
    ELSE "Post to Instagram feed: " \o subject

ApprovalContent(action_upper, subject, details, t) ==
    LET filename == ApprovalFileName(action_upper, subject)
    IN  Join(<<
        "---",
        "type: approval_request",
        "action: instagram_" \o Lower(action_upper),
        "subject: \"" \o subject \o "\"",
        "status: pending",
        "created: \"" \o NowStr(t) \o "\"",
        "requires_human_approval: true",
        "---",
        "",
        "# Approval Request - Instagram " \o action_upper,
        "",
        "**Action:** " \o HumanAction(action_upper, subject),
        "",
        "**Details:**",
        details,
        "",
        "---",
        "",
        "## How to Approve",
        "",
        "1. Review the details above carefully.",
        "2. If approved, **move this file** to:",
        "   'AI_Employee/Approved/" \o filename \o "'",
        "   (or edit 'status: pending' -> 'status: approved' in this file's YAML)",
        "3. Then re-run the MCP tool call that triggered this request.",
        "",
        "## How to Reject",
        "",
        "Move this file to:",
        "   'AI_Employee/Rejected/" \o filename \o "'",
        "",
        "---",
        "",
        "## Rules (from Company Handbook)",
        "",
        "- Human is always the final approver for: DMs sent, posts published.",
        "- Never auto-post or auto-DM without this approval flow.",
        "- This file was created by Instagram MCP Server - Silver Tier.",
        "",
        "---",
        "*Agent: Panaversity AI Employee - Silver Tier | InstagramMCPServer*"
        >>, "\n") \o "\n"

(***************************************************************************)
(* instagram_mcp_server.py: the MCP tools                                  *)
(***************************************************************************)
Message == "hi"                \* the message_text argument of send_dm
Caption == "hello #world"      \* the caption argument of post_to_feed

Idle == [op |-> "idle"]

\* the strings the tools return
BlockedDm(to) ==
    "ACTION BLOCKED - no approved file found for send_dm -> @" \o to \o ".\n\n"
    \o "To authorise this action:\n"
    \o "  1. Run: create_approval_request(action_type='DM', subject='" \o to \o "', "
    \o "details='Send DM: " \o Trunc(Message, 50) \o "')\n"
    \o "  2. Review the file in AI_Employee/Pending_Approval/"
    \o "APPROVAL_INSTAGRAM_DM_" \o _slug(to) \o ".md" \o "\n"
    \o "  3. Move it to AI_Employee/Approved/ (or edit status: approved in-place)\n"
    \o "  4. Re-invoke send_dm()"

BlockedPost ==
    "ACTION BLOCKED - no approved file found for post_to_feed.\n\n"
    \o "To authorise this action:\n"
    \o "  1. Run: create_approval_request(action_type='POST', "
    \o "subject='feed-post', details='<post description>')\n"
    \o "  2. Review the file in AI_Employee/Pending_Approval/APPROVAL_INSTAGRAM_POST.md\n"
    \o "  3. Move it to AI_Employee/Approved/ (or edit status: approved in-place)\n"
    \o "  4. Re-invoke post_to_feed()"

DryRunDm(to, approval) ==
    "[DRY-RUN] Would send DM to @" \o to \o ":\n"
    \o "  Message : " \o Message \o "\n"
    \o "  Approval: " \o approval

DryRunPost(image_path, approval) ==
    "[DRY-RUN] Would post to Instagram feed:\n"
    \o "  Caption : " \o Trunc(Caption, 120) \o (IF Len(Caption) > 120 THEN "..." ELSE "") \o "\n"
    \o "  Image   : "
    \o (IF image_path # "" THEN image_path ELSE "none (would fail - image required)") \o "\n"
    \o "  Approval: " \o approval

SessionExpired == "ERROR: Instagram session expired. Re-authenticate and retry."

\* no response is on its way
NoOut == [op |-> "none"]

\* the response of a tool: what it returned (or that it raised), the approval
\* its gate found, whether it asked for the browser context, the external
\* effect it had and what its append_dashboard call logged ("none": no call)
Out(op, arg, result, raised, approval, ctx, effect, dash) ==
    [op |-> op, arg |-> arg, result |-> result, raised |-> raised,
     approval |-> approval, ctx |-> ctx, effect |-> effect, dash |-> dash]

\* _do_send_dm(username, message): <<result, raised, ctx, effect>> for each way
\* the browser automation can go.  "no_ctx": get_context() raises; "no_page":
\* ctx.new_page() raises (both before the try block, so the exception leaves
\* the function); "expired": _ensure_logged_in is False; "failed": a step in
\* the try block raises and is caught; "sent": the message went out.
DoSendDmOutcomes == {"no_ctx", "no_page", "expired", "failed", "sent"}
_do_send_dm(username, outcome) ==
    CASE outcome = "no_ctx"  -> << "", TRUE, FALSE, "none" >>
      [] outcome = "no_page" -> << "", TRUE, TRUE, "none" >>
      [] outcome = "expired" -> << SessionExpired, FALSE, TRUE, "none" >>
      [] outcome = "failed"  ->
            << "ERROR: TimeoutError: Timeout 20000ms exceeded.", FALSE, TRUE, "none" >>
      [] outcome = "sent"    ->
            << "DM sent to @" \o username \o ": \"" \o Trunc(Message, 60)
                 \o (IF Len(Message) > 60 THEN "..." ELSE "") \o "\"",
               FALSE, TRUE, "dm" >>

\* _do_post_to_feed(caption, image_path): as _do_send_dm, but the image is
\* validated before the browser is touched and the try block has no except
\* clause: "failed" leaves the function as an exception.
DoPostOutcomes == {"no_ctx", "no_page", "expired", "failed", "posted"}
_do_post_to_feed(image_path, outcome) ==
    IF image_path = ""
    THEN << "ERROR: Instagram feed posts require an image. "
              \o "Provide image_path pointing to a .jpg or .png file.",
            FALSE, FALSE, "none" >>
    ELSE IF image_path \notin ExistingImages
    THEN << "ERROR: Image file not found: " \o image_path, FALSE, FALSE, "none" >>
    ELSE CASE outcome = "no_ctx"  -> << "", TRUE, FALSE, "none" >>
           [] outcome = "no_page" -> << "", TRUE, TRUE, "none" >>
           [] outcome = "expired" -> << SessionExpired, FALSE, TRUE, "none" >>
           [] outcome = "failed"  -> << "", TRUE, TRUE, "none" >>
           [] outcome = "posted"  ->
                 << "Feed post created with caption: \"" \o Trunc(Caption, 80)
                      \o (IF Len(Caption) > 80 THEN "..." ELSE "") \o "\"",
                    FALSE, TRUE, "post" >>

\* a send_dm that looks at DRY_RUN before it looks for an approval (a faulty
\* variant, to test the properties of the gate)
SendDmGateDryFirst(to_username) ==
    /\ call = Idle
    /\ out = NoOut
    /\ \E approval \in FindApproval("DM", to_username) :
         IF DRY_RUN
         THEN /\ Len(dashboard) < MaxDash
              /\ \E ok \in BOOLEAN :
                   /\ dashboard' = AppendDashboard(dashboard,
                                       "[DRY-RUN] DM to @" \o to_username, clock, ok)
                   /\ out' = Out("send_dm", to_username, DryRunDm(to_username, approval),
                                 FALSE, approval, FALSE, "none", DashLog(ok))
              /\ UNCHANGED call
         ELSE IF approval = None
         THEN /\ out' = Out("send_dm", to_username, BlockedDm(to_username), FALSE,
                            None, FALSE, "none", "none")
              /\ UNCHANGED << dashboard, call >>
         ELSE /\ call' = [op |-> "send_dm", arg |-> to_username, approval |-> approval]
              /\ UNCHANGED << dashboard, out >>
    /\ UNCHANGED << taskVars, fresh, clock, pureVars, sessionVars, fetched, approvedExists, approved, unreadable, pending, rejected,
                    DRY_RUN >>

\* send_dm, up to the first await: the approval gate and the dry-run branch
SendDmGate(to_username) ==
    /\ call = Idle
    /\ out = NoOut
    /\ \E approval \in FindApproval("DM", to_username) :
         IF approval = None
         THEN /\ out' = Out("send_dm", to_username, BlockedDm(to_username), FALSE,
                            None, FALSE, "none", "none")
              /\ UNCHANGED << dashboard, call >>
         ELSE IF DRY_RUN
         THEN /\ Len(dashboard) < MaxDash
              /\ \E ok \in BOOLEAN :
                   /\ dashboard' = AppendDashboard(dashboard,
                                       "[DRY-RUN] DM to @" \o to_username, clock, ok)
                   /\ out' = Out("send_dm", to_username, DryRunDm(to_username, approval),
                                 FALSE, approval, FALSE, "none", DashLog(ok))
              /\ UNCHANGED call
         ELSE /\ call' = [op |-> "send_dm", arg |-> to_username, approval |-> approval]
              /\ UNCHANGED << dashboard, out >>
    /\ UNCHANGED << taskVars, fresh, clock, pureVars, sessionVars, fetched, approvedExists, approved, unreadable, pending, rejected, DRY_RUN >>

\* a send_dm that removes the approval it has used (a faulty variant, to test
\* that an approval is not consumed)
SendDmExecConsuming ==
    /\ out = NoOut
    /\ call # Idle
    /\ call.op = "send_dm"
    /\ Len(dashboard) < MaxDash
    /\ \E outcome \in DoSendDmOutcomes, ok \in BOOLEAN :
         LET r == _do_send_dm(call.arg, outcome)
         IN  /\ out' = Out("send_dm", call.arg, r[1], r[2], call.approval, r[3], r[4],
                           IF r[2] THEN "none" ELSE DashLog(ok))
             /\ dashboard' = IF r[2] THEN dashboard
                             ELSE AppendDashboard(dashboard, "Sent DM to @" \o call.arg,
                                                  clock, ok)
    /\ call' = Idle
    /\ approved' = IF call.approval \in DOMAIN approved THEN Del(approved, call.approval)
                   ELSE approved
    /\ UNCHANGED << taskVars, fresh, clock, pureVars, sessionVars, fetched, approvedExists, unreadable, pending, rejected, DRY_RUN >>

\* send_dm, the rest: result = await _do_send_dm(...); append_dashboard(...)
SendDmExec ==
    /\ out = NoOut
    /\ call # Idle
    /\ call.op = "send_dm"
    /\ Len(dashboard) < MaxDash
    /\ \E outcome \in DoSendDmOutcomes, ok \in BOOLEAN :
         LET r == _do_send_dm(call.arg, outcome)
         IN  /\ out' = Out("send_dm", call.arg, r[1], r[2], call.approval, r[3], r[4],
                           IF r[2] THEN "none" ELSE DashLog(ok))
             /\ dashboard' = IF r[2] THEN dashboard
                             ELSE AppendDashboard(dashboard, "Sent DM to @" \o call.arg,
                                                  clock, ok)
    /\ call' = Idle
    /\ UNCHANGED << taskVars, fresh, clock, pureVars, sessionVars, fetched, approvedExists, approved, unreadable, pending, rejected,
                    DRY_RUN >>

\* a post_to_feed whose dry-run branch leaves the dashboard alone (a faulty
\* variant, to test the properties of the dry run)
PostToFeedGateSilent(image_path) ==
    /\ call = Idle
    /\ out = NoOut
    /\ \E approval \in FindApproval("POST", "") :
         IF approval = None
         THEN /\ out' = Out("post_to_feed", image_path, BlockedPost, FALSE,
                            None, FALSE, "none", "none")
              /\ UNCHANGED << dashboard, call >>
         ELSE IF DRY_RUN
         THEN /\ out' = Out("post_to_feed", image_path, DryRunPost(image_path, approval),
                            FALSE, approval, FALSE, "none", "none")
              /\ UNCHANGED << dashboard, call >>
         ELSE /\ call' = [op |-> "post_to_feed", arg |-> image_path, approval |-> approval]
              /\ UNCHANGED << dashboard, out >>
    /\ UNCHANGED << taskVars, fresh, clock, pureVars, sessionVars, fetched, approvedExists, approved, unreadable, pending, rejected,
                    DRY_RUN >>

\* post_to_feed, up to the first await
PostToFeedGate(image_path) ==
    /\ call = Idle
    /\ out = NoOut
    /\ \E approval \in FindApproval("POST", "") :
         IF approval = None
         THEN /\ out' = Out("post_to_feed", image_path, BlockedPost, FALSE,
                            None, FALSE, "none", "none")
              /\ UNCHANGED << dashboard, call >>
         ELSE IF DRY_RUN
         THEN /\ Len(dashboard) < MaxDash
              /\ \E ok \in BOOLEAN :
                   /\ dashboard' = AppendDashboard(dashboard,
                                       "[DRY-RUN] Posted to Instagram feed", clock, ok)
                   /\ out' = Out("post_to_feed", image_path, DryRunPost(image_path, approval),
                                 FALSE, approval, FALSE, "none", DashLog(ok))
              /\ UNCHANGED call
         ELSE /\ call' = [op |-> "post_to_feed", arg |-> image_path, approval |-> approval]
              /\ UNCHANGED << dashboard, out >>
    /\ UNCHANGED << taskVars, fresh, clock, pureVars, sessionVars, fetched, approvedExists, approved, unreadable, pending, rejected, DRY_RUN >>

\* post_to_feed, the rest: result = await _do_post_to_feed(...); the dashboard
\* entry is written unless the result starts with "ERROR"
PostToFeedExec ==
    /\ out = NoOut
    /\ call # Idle
    /\ call.op = "post_to_feed"
    /\ Len(dashboard) < MaxDash
    /\ \E outcome \in DoPostOutcomes, ok \in BOOLEAN :
         LET r == _do_post_to_feed(call.arg, outcome)
             logs == ~r[2] /\ ~StartsWith(r[1], "ERROR")
         IN  /\ out' = Out("post_to_feed", call.arg, r[1], r[2], call.approval, r[3], r[4],
                           IF logs THEN DashLog(ok) ELSE "none")
             /\ dashboard' = IF logs
                             THEN AppendDashboard(dashboard, "Posted to Instagram feed",
                                                  clock, ok)
                             ELSE dashboard
    /\ call' = Idle
    /\ UNCHANGED << taskVars, fresh, clock, pureVars, sessionVars, fetched, approvedExists, approved, unreadable, pending, rejected,
                    DRY_RUN >>

\* the number of files in the three approval directories
VaultFiles(p, a, r) ==
    Cardinality(DOMAIN p) + Cardinality(DOMAIN a) + Cardinality(DOMAIN r)

CreatedMsg(filename, human_action) ==
    "Approval request created:\n"
    \o "  File   : AI_Employee/Pending_Approval/" \o filename \o "\n"
    \o "  Action : " \o human_action \o "\n\n"
    \o "Next steps:\n"
    \o "  1. Review: AI_Employee/Pending_Approval/" \o filename \o "\n"
    \o "  2. Approve: move to AI_Employee/Approved/" \o filename \o "\n"
    \o "     (or change  status: pending  ->  status: approved  in the file)\n"
    \o "  3. Re-run the tool call."

\* a create_approval_request that files the earlier request of the pair under
\* Approved when it is asked again (a faulty variant, to test that no tool
\* promotes a record)
CreateApprovalRequestPromoting(action_type, subject) ==
    LET action_upper == Strip(Upper(action_type))
        filename == ApprovalFileName(action_upper, subject)
    IN  /\ out = NoOut
        /\ approved' = IF filename \in DOMAIN pending /\ action_upper \in {"DM", "POST"}
                       THEN Put(approved, filename, pending[filename])
                       ELSE approved
        /\ IF action_upper \notin {"DM", "POST"}
           THEN /\ out' = Out("create_approval_request", << action_type, subject >>,
                              "ERROR: action_type must be 'DM' or 'POST'.", FALSE,
                              None, FALSE, "none", "none")
                /\ UNCHANGED << dashboard, approvedExists, pending, fresh >>
           ELSE /\ Len(dashboard) < MaxDash
                /\ approvedExists' = TRUE
                /\ \E w \in WriteOutcomes, ok \in BOOLEAN :
                     /\ pending' = WriteText(pending, filename,
                                       ApprovalContent(action_upper, subject, Details, clock), w)
                     /\ VaultFiles(pending', approved', rejected) <= MaxFiles
                     /\ IF w # "ok"
                        THEN \* write_text raised: the OSError leaves the tool
                             /\ out' = Out("create_approval_request", << action_type, subject >>,
                                           "", TRUE, None, FALSE, "none", "none")
                             /\ UNCHANGED << dashboard, fresh >>
                        ELSE /\ fresh' = fresh \cup {filename}
                             /\ dashboard' = AppendDashboard(dashboard,
                                    "Approval request created: " \o filename \o " (action="
                                      \o action_upper \o ", subject=" \o subject \o ")",
                                    clock, ok)
                             /\ out' = Out("create_approval_request", << action_type, subject >>,
                                           CreatedMsg(filename, HumanAction(action_upper, subject)),
                                           FALSE, None, FALSE, "none", DashLog(ok))
        /\ UNCHANGED << taskVars, clock, pureVars, sessionVars, fetched, unreadable, rejected, DRY_RUN, call >>

\* create_approval_request(action_type, subject, details)
CreateApprovalRequest(action_type, subject) ==
    LET action_upper == Strip(Upper(action_type))
        filename == ApprovalFileName(action_upper, subject)
    IN  /\ out = NoOut
        /\ IF action_upper \notin {"DM", "POST"}
           THEN /\ out' = Out("create_approval_request", << action_type, subject >>,
                              "ERROR: action_type must be 'DM' or 'POST'.", FALSE,
                              None, FALSE, "none", "none")
                /\ UNCHANGED << dashboard, approvedExists, pending, fresh >>
           ELSE /\ Len(dashboard) < MaxDash
                /\ approvedExists' = TRUE
                /\ \E w \in WriteOutcomes, ok \in BOOLEAN :
                     /\ pending' = WriteText(pending, filename,
                                       ApprovalContent(action_upper, subject, Details, clock), w)
                     /\ VaultFiles(pending', approved, rejected) <= MaxFiles
                     /\ IF w # "ok"
                        THEN \* write_text raised: the OSError leaves the tool
                             /\ out' = Out("create_approval_request", << action_type, subject >>,
                                           "", TRUE, None, FALSE, "none", "none")
                             /\ UNCHANGED << dashboard, fresh >>
                        ELSE /\ fresh' = fresh \cup {filename}
                             /\ dashboard' = AppendDashboard(dashboard,
                                    "Approval request created: " \o filename \o " (action="
                                      \o action_upper \o ", subject=" \o subject \o ")",
                                    clock, ok)
                             /\ out' = Out("create_approval_request", << action_type, subject >>,
                                           CreatedMsg(filename, HumanAction(action_upper, subject)),
                                           FALSE, None, FALSE, "none", DashLog(ok))
        /\ UNCHANGED << taskVars, clock, pureVars, sessionVars, fetched, approved, unreadable, rejected, DRY_RUN, call >>

NotApprovedMsg(action_type, subject) ==
    "NOT APPROVED - no matching approved file found.\n"
    \o "Expected: AI_Employee/Approved/"
    \o (IF subject # ""
        THEN "APPROVAL_INSTAGRAM_" \o Upper(action_type) \o "_" \o _slug(subject) \o ".md"
        ELSE "APPROVAL_INSTAGRAM_" \o Upper(action_type) \o ".md") \o "\n"
    \o "          with YAML line:  status: approved\n\n"
    \o "Run create_approval_request(action_type='" \o action_type \o "', "
    \o "subject='" \o subject \o "', details='...') to start the approval flow."

\* a check_approval_status that looks the record up in Pending_Approval (a
\* faulty variant, to test that the check is the lookup of the gates)
CheckApprovalStatusPending(action_type, subject) ==
    /\ out = NoOut
    /\ \E approval \in FindApprovalPending(Upper(action_type), subject) :
         out' = Out("check_approval_status", << action_type, subject >>,
                    IF approval # None
                    THEN "APPROVED - " \o approval \o "\nReady to proceed with the action."
                    ELSE NotApprovedMsg(action_type, subject),
                    FALSE, approval, FALSE, "none", "none")
    /\ UNCHANGED << taskVars, fresh, clock, pureVars, sessionVars, fetched, dashboard, approvedExists, approved, unreadable, pending,
                    rejected, DRY_RUN, call >>

\* check_approval_status(action_type, subject)
CheckApprovalStatus(action_type, subject) ==
    /\ out = NoOut
    /\ \E approval \in FindApproval(Upper(action_type), subject) :
         out' = Out("check_approval_status", << action_type, subject >>,
                    IF approval # None
                    THEN "APPROVED - " \o approval \o "\nReady to proceed with the action."
                    ELSE NotApprovedMsg(action_type, subject),
                    FALSE, approval, FALSE, "none", "none")
    /\ UNCHANGED << taskVars, fresh, clock, pureVars, sessionVars, fetched, dashboard, approvedExists, approved, unreadable, pending,
                    rejected, DRY_RUN, call >>

(***************************************************************************)
(* The human: the only one who moves or edits approval records             *)
(***************************************************************************)
\* text.replace(old, new, 1)
ReplaceFirst(s, old, new) ==
    LET i == Find(s, old, 1)
    IN  IF i = 0 THEN s
        ELSE SubSeq(s, 1, i - 1) \o new \o SubSeq(s, i + Len(old), Len(s))

HumanMoveToApproved(n) ==
    /\ out = NoOut
    /\ n \in DOMAIN pending
    /\ approvedExists
    /\ approved' = Put(approved, n, pending[n])
    /\ pending' = Del(pending, n)
    /\ unreadable' = unreadable \ {n}
    /\ fresh' = {}
    /\ UNCHANGED << taskVars, clock, pureVars, sessionVars, fetched, dashboard, approvedExists, rejected, DRY_RUN, call, out >>

\* the human edits the header line  status: pending  to  status: approved
HumanEditPending(n) ==
    /\ out = NoOut
    /\ n \in DOMAIN pending
    /\ Contains(pending[n], "status: pending\n")
    /\ pending' = Put(pending, n,
                      ReplaceFirst(pending[n], "status: pending\n", "status: approved\n"))
    /\ fresh' = {}
    /\ UNCHANGED << taskVars, clock, pureVars, sessionVars, fetched, dashboard, approvedExists, approved, unreadable, rejected,
                    DRY_RUN, call, out >>

HumanEditApproved(n) ==
    /\ out = NoOut
    /\ n \in DOMAIN approved
    /\ Contains(approved[n], "status: pending\n")
    /\ approved' = Put(approved, n,
                       ReplaceFirst(approved[n], "status: pending\n", "status: approved\n"))
    /\ fresh' = {}
    /\ UNCHANGED << taskVars, clock, pureVars, sessionVars, fetched, dashboard, approvedExists, unreadable, pending, rejected,
                    DRY_RUN, call, out >>

HumanReject(n) ==
    /\ out = NoOut
    /\ n \in DOMAIN pending
    /\ rejected' = Put(rejected, n, pending[n])
    /\ pending' = Del(pending, n)
    /\ fresh' = {}
    /\ UNCHANGED << taskVars, clock, pureVars, sessionVars, fetched, dashboard, approvedExists, approved, unreadable, DRY_RUN,
                    call, out >>

\* the human writes a file of their own into Approved
HumanPlace(hf) ==
    /\ out = NoOut
    /\ approvedExists
    /\ approved' = Put(approved, hf[1], hf[2])
    /\ VaultFiles(pending, approved', rejected) <= MaxFiles
    /\ unreadable' = IF hf[3] THEN unreadable \ {hf[1]} ELSE unreadable \cup {hf[1]}
    /\ fresh' = {}
    /\ UNCHANGED << taskVars, clock, pureVars, sessionVars, fetched, dashboard, approvedExists, pending, rejected, DRY_RUN, call,
                    out >>

HumanRemove(n) ==
    /\ out = NoOut
    /\ n \in DOMAIN approved
    /\ approved' = Del(approved, n)
    /\ unreadable' = unreadable \ {n}
    /\ fresh' = {}
    /\ UNCHANGED << taskVars, clock, pureVars, sessionVars, fetched, dashboard, approvedExists, pending, rejected, DRY_RUN, call,
                    out >>

\* the human removes the (empty) Approved directory
HumanRmdirApproved ==
    /\ out = NoOut
    /\ approvedExists
    /\ DOMAIN approved = {}
    /\ approvedExists' = FALSE
    /\ fresh' = {}
    /\ UNCHANGED << taskVars, clock, pureVars, sessionVars, fetched, dashboard, approved, unreadable, pending, rejected, DRY_RUN,
                    call, out >>

\* the client has the response.  (The human's steps are taken with no response
\* on its way: a response is only read, so this drops no state of the vault.)
Deliver ==
    /\ out # NoOut
    /\ out' = NoOut
    /\ UNCHANGED << taskVars, fresh, clock, pureVars, sessionVars, fetched, dashboard, approvedExists, approved, unreadable, pending,
                    rejected, DRY_RUN, call >>

\* a second passes
Tick ==
    /\ clock < MaxClock
    /\ clock' = clock + 1
    /\ UNCHANGED << gateVars, taskVars, pureVars, sessionVars, fetched >>

(***************************************************************************)
(* watcher.py: the header block of a record                                *)
(***************************************************************************)
\* a header mapping is the sequence of its <<key, value>> pairs, in the
\* insertion order of the Python dict

\* fm.get(key, default)
FmGet(fm, key, default) ==
    IF \E i \in 1..Len(fm) : fm[i][1] = key
    THEN fm[CHOOSE i \in 1..Len(fm) : fm[i][1] = key][2]
    ELSE default

\* fm[key] = val: a key already present keeps its place
FmSet(fm, key, val) ==
    IF \E i \in 1..Len(fm) : fm[i][1] = key
    THEN [i \in 1..Len(fm) |-> IF fm[i][1] = key THEN << key, val >> ELSE fm[i]]
    ELSE Append(fm, << key, val >>)

\* the loop of parse_frontmatter over the lines of the block
RECURSIVE FmOfLines(_, _)
FmOfLines(lines, fm) ==
    IF lines = << >> THEN fm
    ELSE LET line == Head(lines)
             colon == Find(line, ":", 1)
         IN  IF colon = 0 THEN FmOfLines(Tail(lines), fm)
             ELSE FmOfLines(Tail(lines),
                            FmSet(fm, Strip(SubSeq(line, 1, colon - 1)),
                                      Strip(SubSeq(line, colon + 1, Len(line)))))

\* parse_frontmatter(content): re.match(r"^---\n(.*?)\n---\n?", content, re.DOTALL);
\* ok is FALSE where the source returns (None, content)
ParseFrontmatter(content) ==
    LET close == IF StartsWith(content, "---\n") THEN Find(content, "\n---", 5) ELSE 0
    IN  IF close = 0 THEN [ok |-> FALSE, fm |-> << >>, body |-> content]
        ELSE LET end == IF Ch(content, close + 4) = "\n" THEN close + 5 ELSE close + 4
             IN  [ok   |-> TRUE,
                  fm   |-> FmOfLines(SplitLines(SubSeq(content, 5, close - 1)), << >>),
                  body |-> SubSeq(content, end, Len(content))]

\* a rebuild_frontmatter that ends the block without a line break (a faulty
\* variant, to test the round trip)
rebuild_frontmatterOpen(fm, body) ==
    "---\n" \o Join([i \in 1..Len(fm) |-> fm[i][1] \o ": " \o fm[i][2]], "\n")
        \o "\n---" \o body

\* rebuild_frontmatter(fm, body)
rebuild_frontmatter(fm, body) ==
    "---\n" \o Join([i \in 1..Len(fm) |-> fm[i][1] \o ": " \o fm[i][2]], "\n")
        \o "\n---\n" \o body

\* a field of the header block of a record ("" when there is none)
HeaderField(text, key) ==
    LET p == ParseFrontmatter(text)
    IN  IF p.ok THEN FmGet(p.fm, key, "") ELSE ""

(***************************************************************************)
(* base_watcher.py and its adapters gmail_watcher.py, whatsapp_watcher.py, *)
(* instagram_watcher.py                                                    *)
(***************************************************************************)
MaxBatch   == 2        \* a fetch returns at most this many raw items
MaxWritten == 2        \* a watcher writes at most this many records
MaxBlocks  == 1        \* blocks the watcher, and blocks the Mover, append to the dashboard
MaxDrops   == 2        \* files a human puts into Needs_Action

\* the number of chunks of the dashboard that are blocks of the Task Mover
\* (mover = TRUE) or of a watcher (mover = FALSE)
BlocksOf(dash, mover) ==
    Cardinality({ i \in 1..Len(dash) :
                    StartsWith(dash[i], "\n### Silver Tier Watcher Log - ") = mover })

WatcherKinds == {"gmail", "whatsapp", "instagram"}

\* the raw items the sources can show.  gmail: a message (id, From, Subject);
\* whatsapp / instagram: a chat row (sender, message preview), unread, with
\* no matched keyword.  The first two chats differ only in case and spacing.
GmailItems ==
    { [id |-> "18f3a", sender |-> "Bob <bob@x.io>", message |-> "Invoice due"],
      [id |-> "18f3b", sender |-> "Bob <bob@x.io>", message |-> "Invoice due"] }
DmItems ==
    { [id |-> "", sender |-> "Bob", message |-> "Urgent  invoice"],
      [id |-> "", sender |-> "BOB", message |-> "urgent invoice "],
      [id |-> "", sender |-> "Bob", message |-> "pay now"] }
Items(k) == IF k = "gmail" THEN GmailItems ELSE DmItems

\* the lists a source can return
RawBatches(k) == UNION { [1..n -> Items(k)] : n \in 0..MaxBatch }

KeyLen == 80
SafeLen == 30

\* re.sub(r"\s+", " ", s): the two halves, each collapsed, are joined, and a
\* blank at the end of the first meets a blank at the start of the second as one
RECURSIVE CollapseSpace(_)
CollapseSpace(s) ==
    IF Len(s) = 0 THEN ""
    ELSE IF Len(s) = 1 THEN (IF s \in SpaceSet THEN " " ELSE s)
    ELSE LET h == Len(s) \div 2
             l == CollapseSpace(SubSeq(s, 1, h))
             r == CollapseSpace(SubSeq(s, h + 1, Len(s)))
         IN  IF Ch(l, Len(l)) = " " /\ Ch(r, 1) = " "
             THEN l \o SubSeq(r, 2, Len(r))
             ELSE l \o r

\* _dedup_key(sender, message) of the whatsapp and instagram watchers
_dedup_key(sender, message) ==
    Lower(Strip(sender)) \o "::" \o Lower(Trunc(CollapseSpace(Strip(message)), KeyLen))

\* re.sub(r"[^\w\s-]", "_", text)
RECURSIVE SafeChars(_)
SafeChars(s) ==
    IF Len(s) = 0 THEN ""
    ELSE IF Len(s) = 1
         THEN (IF s \in LowerSet \cup UpperSet \cup DigitSet \cup SpaceSet \cup {"_", "-"}
               THEN s ELSE "_")
    ELSE LET h == Len(s) \div 2
         IN  SafeChars(SubSeq(s, 1, h)) \o SafeChars(SubSeq(s, h + 1, Len(s)))

\* _safe_filename(text)
_safe_filename(text) == Trunc(Strip(SafeChars(text)), SafeLen)

\* the dedup key of a raw item: the message id, or chat["_dedup_key"]
DedupKey(k, item) ==
    IF k = "gmail" THEN item.id ELSE _dedup_key(item.sender, item.message)

\* the keys of the raw items
KeyOf == [k \in WatcherKinds |-> [item \in Items(k) |-> DedupKey(k, item)]]

\* fetch_items: the raw items whose key is not in _processed_ids, in order;
\* for gmail, without the messages whose get() raised HttpError (`fails`)
RECURSIVE NewItems(_, _, _, _, _)
NewItems(k, raw, fails, ids, i) ==
    IF i > Len(raw) THEN << >>
    ELSE IF KeyOf[k][raw[i]] \in ids \/ (k = "gmail" /\ i \in fails)
         THEN NewItems(k, raw, fails, ids, i + 1)
    ELSE << raw[i] >> \o NewItems(k, raw, fails, ids, i + 1)

\* the name of the file process_item writes
TaskFileName(k, item, t) ==
    CASE k = "gmail"     -> "EMAIL_" \o item.id \o ".md"
      [] k = "whatsapp"  -> "WHATSAPP_" \o _safe_filename(item.sender) \o "_" \o TsFile(t) \o ".md"
      [] k = "instagram" -> "INSTAGRAM_" \o _safe_filename(item.sender) \o "_" \o TsFile(t) \o ".md"

GmailReceived == "Thu, 1 Jan 2026 09:59:00 +0000"
GmailSnippet  == "Please pay the invoice."

\* the text process_item writes
GmailContent(item, t) ==
    Join(<<
        "---",
        "type: email",
        "status: pending",
        "message_id: " \o item.id,
        "from: \"" \o ReplaceCh(item.sender, "\"", "'") \o "\"",
        "subject: \"" \o ReplaceCh(item.message, "\"", "'") \o "\"",
        "received: \"" \o GmailReceived \o "\"",
        "created: " \o NowStr(t),
        "priority: high",
        "source: gmail",
        "---",
        "",
        "## " \o item.message,
        "",
        "| Field    | Value |",
        "|----------|-------|",
        "| **From** | " \o item.sender \o " |",
        "| **Date** | " \o GmailReceived \o " |",
        "| **ID**   | '" \o item.id \o "' |",
        "",
        "---",
        "",
        "### Preview",
        "",
        "> " \o GmailSnippet,
        "",
        "---",
        "",
        "### Suggested Actions",
        "",
        "- [ ] Open and read full email in Gmail",
        "- [ ] Reply to sender",
        "- [ ] Delegate to relevant team member",
        "- [ ] Schedule follow-up task",
        "- [ ] File / archive email",
        "- [ ] Mark as done -> move this file to Done/",
        "",
        "---",
        "",
        "*Created by Gmail Watcher - Panaversity AI Employee Hackathon Silver Tier*",
        "*Processed at: " \o NowStr(t) \o "*"
        >>, "\n") \o "\n"

WhatsAppContent(item, t) ==
    Join(<<
        "---",
        "type: whatsapp",
        "from: \"" \o ReplaceCh(item.sender, "\"", "'") \o "\"",
        "message: \"" \o Strip(ReplaceCh(CollapseSpace(item.message), "\"", "'")) \o "\"",
        "time: " \o NowStr(t),
        "priority: high",
        "status: pending",
        "unread_count: 1",
        "trigger: unread (1 message(s))",
        "source: whatsapp_web",
        "created: " \o NowStr(t),
        "---",
        "",
        "## WhatsApp Message from " \o item.sender,
        "",
        "| Field          | Value |",
        "|----------------|-------|",
        "| **From**       | " \o item.sender \o " |",
        "| **Time**       | " \o NowStr(t) \o " |",
        "| **Unread**     | 1 |",
        "| **Trigger**    | unread (1 message(s)) |",
        "| **Priority**   | high |",
        "",
        "---",
        "",
        "### Message Preview",
        "",
        "> " \o item.message,
        "",
        "---",
        "",
        "### Suggested Actions",
        "",
        "- [ ] Reply with quote",
        "- [ ] Ask for details",
        "- [ ] Archive chat",
        "- [ ] Schedule follow-up call or meeting",
        "- [ ] Delegate to team member",
        "- [ ] Mark as done -> move this file to Done/",
        "",
        "---",
        "",
        "*Created by WhatsApp Watcher - Panaversity AI Employee Hackathon Silver Tier*",
        "*Logged at: " \o NowStr(t) \o "*"
        >>, "\n") \o "\n"

InstagramContent(item, t) ==
    Join(<<
        "---",
        "type: instagram",
        "from: \"" \o ReplaceCh(item.sender, "\"", "'") \o "\"",
        "message: \"" \o Strip(ReplaceCh(CollapseSpace(item.message), "\"", "'")) \o "\"",
        "time: " \o NowStr(t),
        "priority: high",
        "status: pending",
        "trigger: unread DM",
        "source: instagram_dm",
        "created: " \o NowStr(t),
        "---",
        "",
        "## Instagram DM from " \o item.sender,
        "",
        "| Field        | Value |",
        "|--------------|-------|",
        "| **From**     | " \o item.sender \o " |",
        "| **Time**     | " \o NowStr(t) \o " |",
        "| **Trigger**  | unread DM |",
        "| **Priority** | high |",
        "",
        "---",
        "",
        "### Message Preview",
        "",
        "> " \o item.message,
        "",
        "---",
        "",
        "### Suggested Actions",
        "",
        "- [ ] Reply with quote",
        "- [ ] Ask for details",
        "- [ ] Archive chat",
        "- [ ] Schedule follow-up",
        "- [ ] Mark as done -> move this file to Done/",
        "",
        "---",
        "",
        "*Created by Instagram Watcher - Panaversity AI Employee Hackathon Silver Tier*",
        "*Logged at: " \o NowStr(t) \o "*"
        >>, "\n") \o "\n"

TaskContent(k, item, t) ==
    CASE k = "gmail"     -> GmailContent(item, t)
      [] k = "whatsapp"  -> WhatsAppContent(item, t)
      [] k = "instagram" -> InstagramContent(item, t)

\* the file names and texts of the raw items at the seconds of the clock
FileOf == [k \in WatcherKinds |->
             [item \in Items(k) |-> [t \in 0..MaxClock |-> TaskFileName(k, item, t)]]]
TextOf == [k \in WatcherKinds |->
             [item \in Items(k) |-> [t \in 0..MaxClock |-> TaskContent(k, item, t)]]]

WatcherName(k) ==
    CASE k = "gmail"     -> "GmailWatcher"
      [] k = "whatsapp"  -> "WhatsAppWatcher"
      [] k = "instagram" -> "InstagramWatcher"

\* the block BaseWatcher.update_dashboard(created_files, source=self.name) appends
WatcherBlock(k, created_files, t) ==
    Join(<< "\n### " \o WatcherName(k) \o " Log - " \o NowStr(t),
            "- Source: " \o WatcherName(k) >>
         \o [i \in 1..Len(created_files) |-> "- Task created: '" \o created_files[i] \o "'"]
         \o << "- Agent: Panaversity AI Employee - Silver Tier" >>, "\n") \o "\n"

\* process_item has no file open
NoFile == [name |-> ""]

\* no Gmail fetch_items has run
NoFetch == [list_ok |-> TRUE, listed |-> << >>, failed |-> {}, retried |-> {}]

\* the watch loop: items = self.fetch_items(); with no new item the cycle is
\* over (the watcher sleeps again)
FetchItems ==
    /\ wpc = "sleep"
    /\ \E raw \in RawBatches(kind) :
       \E fails \in (IF kind = "gmail" THEN SUBSET (1..Len(raw)) ELSE {{}}) :
         LET items == NewItems(kind, raw, fails, _processed_ids, 1)
         IN  /\ items # << >>
             /\ batch' = items
             /\ wpc' = "process"
    /\ created' = << >>
    /\ wlog' = ""
    /\ UNCHANGED << clock, pureVars, sessionVars, fetched, dashboard, approvalVars, needs_action, done, kind, writing,
                    _processed_ids, written, moverVars >>

\* process_item without its own look at _processed_ids: it relies on the
\* filter of fetch_items alone
ProcessItemUnguarded ==
    /\ wpc = "process"
    /\ batch # << >>
    /\ LET item == Head(batch)
           key == KeyOf[kind][item]
           filename == FileOf[kind][item][clock]
       IN  \E w \in WriteOutcomes :
             /\ needs_action' = WriteText(needs_action, filename,
                                          TextOf[kind][item][clock], w)
             /\ IF w = "ok"
                THEN /\ Len(written) < MaxWritten
                     /\ _processed_ids' = _processed_ids \cup {key}
                     /\ created' = Append(created, filename)
                     /\ written' = Append(written, << key, filename >>)
                ELSE UNCHANGED << _processed_ids, created, written >>
    /\ batch' = Tail(batch)
    /\ UNCHANGED << clock, pureVars, sessionVars, fetched, dashboard, approvalVars, done, kind, writing, wpc, wlog, moverVars >>

\* process_item that records the key before it writes the file
ProcessItemEager ==
    /\ wpc = "process"
    /\ batch # << >>
    /\ LET item == Head(batch)
           key == KeyOf[kind][item]
           filename == FileOf[kind][item][clock]
       IN  IF key \in _processed_ids
           THEN UNCHANGED << needs_action, _processed_ids, created, written >>
           ELSE \E w \in WriteOutcomes :
                  /\ _processed_ids' = _processed_ids \cup {key}
                  /\ needs_action' = WriteText(needs_action, filename,
                                               TextOf[kind][item][clock], w)
                  /\ IF w = "ok"
                     THEN /\ Len(written) < MaxWritten
                          /\ created' = Append(created, filename)
                          /\ written' = Append(written, << key, filename >>)
                     ELSE UNCHANGED << created, written >>
    /\ batch' = Tail(batch)
    /\ UNCHANGED << clock, pureVars, sessionVars, fetched, dashboard, approvalVars, done, kind, writing, wpc, wlog, moverVars >>

\* fname = self.process_item(item); if fname: created.append(fname)
ProcessItem ==
    /\ wpc = "process"
    /\ batch # << >>
    /\ LET item == Head(batch)
           key == KeyOf[kind][item]
           filename == FileOf[kind][item][clock]
       IN  IF key \in _processed_ids
           THEN UNCHANGED << needs_action, _processed_ids, created, written >>
           ELSE \E w \in WriteOutcomes :
                  /\ needs_action' = WriteText(needs_action, filename,
                                               TextOf[kind][item][clock], w)
                  /\ IF w = "ok"
                     THEN /\ Len(written) < MaxWritten
                          /\ _processed_ids' = _processed_ids \cup {key}
                          /\ created' = Append(created, filename)
                          /\ written' = Append(written, << key, filename >>)
                     ELSE UNCHANGED << _processed_ids, created, written >>
    /\ batch' = Tail(batch)
    /\ UNCHANGED << clock, pureVars, sessionVars, fetched, dashboard, approvalVars, done, kind, writing, wpc, wlog, moverVars >>

\* process_item up to the open() of filepath.write_text(content): mode "w"
\* creates the file, or empties the file of that name, before a byte is written
ProcessItemOpen ==
    /\ wpc = "process"
    /\ batch # << >>
    /\ writing = NoFile
    /\ LET item == Head(batch)
           key == KeyOf[kind][item]
           filename == FileOf[kind][item][clock]
       IN  IF key \in _processed_ids
           THEN /\ batch' = Tail(batch)
                /\ UNCHANGED << needs_action, writing >>
           ELSE \E w \in WriteOutcomes :
                  IF w = "ok"
                  THEN /\ Len(written) < MaxWritten
                       /\ needs_action' = Put(needs_action, filename, "")
                       /\ writing' = [name |-> filename, key |-> key,
                                      text |-> TextOf[kind][item][clock]]
                       /\ UNCHANGED batch
                  ELSE /\ batch' = Tail(batch)
                       /\ UNCHANGED << needs_action, writing >>
    /\ UNCHANGED << clock, pureVars, sessionVars, fetched, dashboard, approvalVars, done, kind, _processed_ids,
                    wpc, created, written, wlog, moverVars >>

\* the rest of write_text: the text goes into the file that was opened, which
\* is in Needs_Action, or in Done if it was moved since (the move is a rename,
\* the open file goes with it), and the file is closed; if the write raises
\* OSError the file stays as it is and process_item returns None
ProcessItemClose ==
    /\ wpc = "process"
    /\ writing # NoFile
    /\ \E w \in WriteOutcomes :
         IF w = "ok"
         THEN /\ IF writing.name \in DOMAIN needs_action
                 THEN /\ needs_action' = Put(needs_action, writing.name, writing.text)
                      /\ UNCHANGED done
                 ELSE /\ done' = Put(done, writing.name, writing.text)
                      /\ UNCHANGED needs_action
              /\ _processed_ids' = _processed_ids \cup {writing.key}
              /\ created' = Append(created, writing.name)
              /\ written' = Append(written, << writing.key, writing.name >>)
         ELSE UNCHANGED << needs_action, done, _processed_ids, created, written >>
    /\ writing' = NoFile
    /\ batch' = Tail(batch)
    /\ UNCHANGED << clock, pureVars, sessionVars, fetched, dashboard, approvalVars, kind, wpc, wlog, moverVars >>

\* the end of the cycle: update_dashboard(created) if created, then sleep
WatcherCycleEnd ==
    /\ wpc = "process"
    /\ batch = << >>
    /\ IF created = << >>
       THEN UNCHANGED << dashboard, wlog >>
       ELSE /\ BlocksOf(dashboard, FALSE) < MaxBlocks
            /\ \E ok \in BOOLEAN :
                 /\ dashboard' = IF ok
                                 THEN Append(dashboard, WatcherBlock(kind, created, clock))
                                 ELSE dashboard
                 /\ wlog' = IF ok THEN "" ELSE "Could not update dashboard"
    /\ wpc' = "sleep"
    /\ created' = << >>
    /\ UNCHANGED << clock, pureVars, sessionVars, fetched, approvalVars, needs_action, done, kind, writing, _processed_ids,
                    batch, written, moverVars >>

\* a fetch_items that returns no new item: "No new items found this cycle."
FetchNothing ==
    /\ wpc = "sleep"
    /\ wlog' = ""
    /\ UNCHANGED << clock, pureVars, sessionVars, fetched, dashboard, approvalVars, needs_action, done, kind, writing,
                    _processed_ids, wpc, batch, created, written, moverVars >>

\* fetch_items raises (the browser page cannot be reconnected, the Gmail
\* transport fails with something other than HttpError): `except Exception` of
\* the watch loop logs it and sleeps
FetchItemsRaise ==
    /\ wpc = "sleep"
    /\ wlog' = "Unexpected error in watch loop"
    /\ UNCHANGED << clock, pureVars, sessionVars, fetched, dashboard, approvalVars, needs_action, done, kind, writing,
                    _processed_ids, wpc, batch, created, written, moverVars >>

\* a watch loop without `except Exception`: an exception raised by
\* process_item ends the loop (a faulty variant, to test the properties of the
\* loops)
ProcessItemRaiseFatal ==
    /\ wpc = "process"
    /\ batch # << >>
    /\ KeyOf[kind][Head(batch)] \notin _processed_ids
    /\ wlog' = "Unexpected error in watch loop"
    /\ batch' = << >>
    /\ created' = << >>
    /\ wpc' = "stopped"
    /\ UNCHANGED << clock, pureVars, sessionVars, fetched, dashboard, approvalVars, needs_action, done, kind, writing,
                    _processed_ids, written, moverVars >>

\* process_item raises something other than OSError before it writes (a field
\* of the raw item is not a string): the exception leaves the for loop, the
\* `created` list of the cycle is dropped, the watch loop logs and sleeps
ProcessItemRaise ==
    /\ wpc = "process"
    /\ batch # << >>
    /\ KeyOf[kind][Head(batch)] \notin _processed_ids
    /\ wlog' = "Unexpected error in watch loop"
    /\ batch' = << >>
    /\ created' = << >>
    /\ wpc' = "sleep"
    /\ UNCHANGED << clock, pureVars, sessionVars, fetched, dashboard, approvalVars, needs_action, done, kind, writing,
                    _processed_ids, written, moverVars >>

\* KeyboardInterrupt: the watch loop logs and breaks, the process ends and its
\* memory with it
WatcherInterrupt ==
    /\ wpc \in {"sleep", "process"}
    /\ wpc' = "stopped"
    /\ wlog' = "Watch loop stopped by user"
    /\ batch' = << >>
    /\ created' = << >>
    /\ _processed_ids' = {}
    /\ UNCHANGED << clock, pureVars, sessionVars, fetched, dashboard, approvalVars, needs_action, done, kind, writing,
                    written, moverVars >>

\* a start that would take the keys of the records found in Needs_Action and
\* Done into _processed_ids (a faulty variant: __init__ reads no directory)
WatcherStartRestoring ==
    /\ wpc = "stopped"
    /\ wpc' = "sleep"
    /\ wlog' = ""
    /\ _processed_ids' = { written[i][1] : i \in { j \in 1..Len(written) :
                              written[j][2] \in DOMAIN needs_action \cup DOMAIN done } }
    /\ UNCHANGED << clock, pureVars, sessionVars, fetched, dashboard, approvalVars, needs_action, done, kind, writing,
                    batch, created, written, moverVars >>

\* the watcher is started again: BaseWatcher.__init__ sets
\* self._processed_ids = set() and reads neither Needs_Action nor Done
WatcherStart ==
    /\ wpc = "stopped"
    /\ wpc' = "sleep"
    /\ wlog' = ""
    /\ _processed_ids' = {}
    /\ UNCHANGED << clock, pureVars, sessionVars, fetched, dashboard, approvalVars, needs_action, done, kind, writing,
                    batch, created, written, moverVars >>

(***************************************************************************)
(* watcher.py: the Task Mover                                              *)
(***************************************************************************)
\* the characters of the file names, in code-point order
AsciiOrder == " -.0123456789ABCDEFGHIJKLMNOPQRSTUVWXYZ_abcdefghijklmnopqrstuvwxyz"

\* a < b for Python strings
RECURSIVE StrLess(_, _)
StrLess(a, b) ==
    IF Len(b) = 0 THEN FALSE
    ELSE IF Len(a) = 0 THEN TRUE
    ELSE IF Ch(a, 1) = Ch(b, 1) THEN StrLess(SubSeq(a, 2, Len(a)), SubSeq(b, 2, Len(b)))
    ELSE IndexIn(Ch(a, 1), AsciiOrder) < IndexIn(Ch(b, 1), AsciiOrder)

\* the list l, increasing, with x put at its place
RECURSIVE Insert(_, _)
Insert(x, l) ==
    IF l = << >> THEN << x >>
    ELSE IF StrLess(x, Head(l)) THEN << x >> \o l
    ELSE << Head(l) >> \o Insert(x, Tail(l))

\* a scan that takes the names in the order of the listing (a faulty variant,
\* to test the order of processing)
SortedAsListed(l) == l

\* sorted(l), for a list of names
RECURSIVE Sorted(_)
Sorted(l) ==
    IF l = << >> THEN << >> ELSE Insert(Head(l), Sorted(Tail(l)))

\* [f for f in os.listdir(NEEDS_ACTION) if f.endswith(".md") and not f.startswith(".")]
Candidates(dir) == { f \in DOMAIN dir : EndsWith(f, ".md") /\ ~StartsWith(f, ".") }

\* the note process_file appends to the body
MoverNote(ts) ==
    "\n---\n"
    \o "**Processed by Silver Tier Watcher - Panaversity AI Employee Hackathon**  \n"
    \o "Timestamp: " \o ts \o "  \n"
    \o "Action: status updated -> processed, file moved to Done/\n"

\* fm.get("status", "") compared as it is written
StatusOfExact(fm) == FmGet(fm, "status", "")

\* fm.get("status", "").lower()
StatusOf(fm) == Lower(FmGet(fm, "status", ""))

\* updated_content of process_file, for the parsed header and body
UpdatedContent(fm, body, ts) ==
    rebuild_frontmatter(FmSet(FmSet(fm, "status", "processed"), "processed_at", ts),
                        body \o MoverNote(ts))

\* the block update_dashboard(processed) appends
MoverBlock(names, t) ==
    Join(<< "\n### Silver Tier Watcher Log - " \o NowStr(t) >>
         \o [i \in 1..Len(names) |-> "- Processed & moved to Done/: '" \o names[i] \o "'"]
         \o << "- Agent: Silver Tier Watcher - Panaversity AI Employee Hackathon" >>,
         "\n") \o "\n"

\* the content of a file whose bytes are not UTF-8: f.read() raises
\* UnicodeDecodeError, which is no OSError
Undecodable == "<bytes that are not UTF-8>"

\* what process_file logs
MoverErrors == {"ERROR reading", "ERROR writing", "ERROR moving"}

\* the start of a scan that finds candidates (a scan of a directory without
\* candidates changes nothing); os.listdir returns the names in any order
MoverScan ==
    /\ mpc = "sleep"
    /\ Candidates(needs_action) # {}
    /\ \E listing \in Orders(Candidates(needs_action)) :
         candidates' = Sorted(listing)
    /\ processed' = << >>
    /\ mpc' = "scan"
    /\ mlog' = ""
    /\ UNCHANGED << clock, pureVars, sessionVars, fetched, dashboard, approvalVars, needs_action, done, watcherVars >>

\* process_file(filepath, filename), up to the write-back: read, parse, check
\* the status, rewrite the file in place
ProcessFileWrite ==
    /\ mpc = "scan"
    /\ candidates # << >>
    /\ LET filename == Head(candidates)
           present == filename \in DOMAIN needs_action
           content == IF present THEN needs_action[filename] ELSE ""
           p == ParseFrontmatter(content)
       IN  \E r \in {"ok", "fail"} :
             IF r = "fail" \/ ~present
             THEN /\ mlog' = "ERROR reading"
                  /\ candidates' = Tail(candidates)
                  /\ UNCHANGED << needs_action, mpc >>
             ELSE IF content = Undecodable
             THEN FALSE      \* see ProcessFileRaise
             ELSE IF ~p.ok
             THEN /\ mlog' = "SKIP no YAML frontmatter"
                  /\ candidates' = Tail(candidates)
                  /\ UNCHANGED << needs_action, mpc >>
             ELSE IF StatusOf(p.fm) # "pending"
             THEN /\ mlog' = "SKIP status"
                  /\ candidates' = Tail(candidates)
                  /\ UNCHANGED << needs_action, mpc >>
             ELSE \E w \in WriteOutcomes :
                    /\ needs_action' = WriteText(needs_action, filename,
                                          UpdatedContent(p.fm, p.body, NowStr(clock)), w)
                    /\ IF w = "ok"
                       THEN /\ mlog' = "PROCESS"
                            /\ mpc' = "move"
                            /\ UNCHANGED candidates
                       ELSE /\ mlog' = "ERROR writing"
                            /\ candidates' = Tail(candidates)
                            /\ UNCHANGED mpc
    /\ UNCHANGED << clock, pureVars, sessionVars, fetched, dashboard, approvalVars, done, watcherVars, processed >>

\* process_file raises while it reads the file: the exception leaves the for
\* loop of the scan, the `processed` list is dropped, `except Exception` of the
\* watch loop logs it and sleeps
ProcessFileRaise ==
    /\ mpc = "scan"
    /\ candidates # << >>
    /\ Head(candidates) \in DOMAIN needs_action
    /\ needs_action[Head(candidates)] = Undecodable
    /\ mlog' = "UNEXPECTED ERROR"
    /\ mpc' = "sleep"
    /\ candidates' = << >>
    /\ processed' = << >>
    /\ UNCHANGED << clock, pureVars, sessionVars, fetched, dashboard, approvalVars, needs_action, done, watcherVars >>

\* os.listdir(NEEDS_ACTION) raises (the vault is unreachable): `except
\* Exception` of the watch loop logs it and sleeps
MoverScanRaise ==
    /\ mpc = "sleep"
    /\ mlog' = "UNEXPECTED ERROR"
    /\ UNCHANGED << clock, pureVars, sessionVars, fetched, dashboard, approvalVars, needs_action, done, watcherVars,
                    mpc, candidates, processed >>

\* process_file, the rest: shutil.move(filepath, dest)
ProcessFileMove ==
    /\ mpc = "move"
    /\ LET filename == Head(candidates)
       IN  \E m \in {"ok", "fail"} :
             IF m = "ok" /\ filename \in DOMAIN needs_action
             THEN /\ done' = Put(done, filename, needs_action[filename])
                  /\ needs_action' = Del(needs_action, filename)
                  /\ mlog' = "MOVED"
                  /\ processed' = Append(processed, filename)
             ELSE /\ mlog' = "ERROR moving"
                  /\ UNCHANGED << needs_action, done, processed >>
    /\ candidates' = Tail(candidates)
    /\ mpc' = "scan"
    /\ UNCHANGED << clock, pureVars, sessionVars, fetched, dashboard, approvalVars, watcherVars >>

\* a Mover whose update_dashboard opens the dashboard for writing, not for
\* appending (a faulty variant, to test that the dashboard only grows)
MoverScanEndRewriting ==
    /\ mpc = "scan"
    /\ candidates = << >>
    /\ IF processed = << >>
       THEN /\ mlog' = ""
            /\ UNCHANGED dashboard
       ELSE /\ BlocksOf(dashboard, TRUE) < MaxBlocks
            /\ \E ok \in BOOLEAN :
                 /\ dashboard' = IF ok THEN << MoverBlock(processed, clock) >>
                                 ELSE dashboard
                 /\ mlog' = IF ok THEN "" ELSE "WARNING: could not update dashboard"
    /\ mpc' = "sleep"
    /\ processed' = << >>
    /\ UNCHANGED << clock, pureVars, sessionVars, fetched, approvalVars, needs_action, done, watcherVars, candidates >>

\* the end of the scan: update_dashboard(processed) if processed, then sleep
MoverScanEnd ==
    /\ mpc = "scan"
    /\ candidates = << >>
    /\ IF processed = << >>
       THEN /\ mlog' = ""
            /\ UNCHANGED dashboard
       ELSE /\ BlocksOf(dashboard, TRUE) < MaxBlocks
            /\ \E ok \in BOOLEAN :
                 /\ dashboard' = IF ok THEN Append(dashboard, MoverBlock(processed, clock))
                                 ELSE dashboard
                 /\ mlog' = IF ok THEN "" ELSE "WARNING: could not update dashboard"
    /\ mpc' = "sleep"
    /\ processed' = << >>
    /\ UNCHANGED << clock, pureVars, sessionVars, fetched, approvalVars, needs_action, done, watcherVars, candidates >>

\* KeyboardInterrupt between the write-back and the move of process_file: it is
\* no OSError, so it leaves process_file and ends the watch loop
MoverInterrupt ==
    /\ mpc = "move"
    /\ mpc' = "stopped"
    /\ candidates' = << >>
    /\ processed' = << >>
    /\ mlog' = "Watcher stopped by user"
    /\ UNCHANGED << clock, pureVars, sessionVars, fetched, dashboard, approvalVars, needs_action, done, watcherVars >>

\* the Mover is started again: watch() from its first line
MoverStart ==
    /\ mpc = "stopped"
    /\ mpc' = "sleep"
    /\ mlog' = ""
    /\ UNCHANGED << clock, pureVars, sessionVars, fetched, dashboard, approvalVars, needs_action, done, watcherVars,
                    candidates, processed >>

(***************************************************************************)
(* The human at the task store                                             *)
(***************************************************************************)
\* files a human may put into Needs_Action by hand: <<name, text>>
HumanTasks ==
    { << "TODO_call.md", "---\ntitle: call Bob\nStatus : x\nstatus:  PENDING \n---\nCall Bob.\n" >>,
      << "TODO_old.md",  "---\ntitle: old\nstatus: done\n---\nDone long ago.\n" >>,
      << "TODO_bare.md", "---\ntitle: no status\n---\nNothing.\n" >>,
      << "README.md",    "status: pending\nNo header block.\n" >>,
      << ".draft.md",    "---\nstatus: pending\n---\nHidden.\n" >>,
      << "notes.txt",    "---\nstatus: pending\n---\nNot markdown.\n" >>,
      << "UPLOAD_scan.md", Undecodable >> }

HumanDrop(ht) ==
    /\ Cardinality({ h \in HumanTasks : h[1] \in DOMAIN needs_action \cup DOMAIN done })
         < MaxDrops
    /\ ht[1] \notin DOMAIN needs_action \cup DOMAIN done
    /\ needs_action' = Put(needs_action, ht[1], ht[2])
    /\ UNCHANGED << clock, pureVars, sessionVars, fetched, dashboard, approvalVars, done, watcherVars, moverVars >>

\* the names that can occur in the approval directories
ApprovalNames ==
    { ApprovalFileName(Strip(Upper(r[1])), r[2]) : r \in Requests } \cup { hf[1] : hf \in HumanFiles }

\* the server has started (its entry point made the three directories)
InitVault ==
    /\ dashboard = << >>
    /\ approvedExists = TRUE
    /\ approved = EmptyDir
    /\ unreadable = {}
    /\ pending = EmptyDir
    /\ rejected = EmptyDir
    /\ call = Idle
    /\ out = NoOut
    /\ fresh = {}

\* a watcher and the Mover have started on an empty task store
InitTasks ==
    /\ needs_action = EmptyDir
    /\ done = EmptyDir
    /\ _processed_ids = {}
    /\ wpc = "sleep"
    /\ batch = << >>
    /\ created = << >>
    /\ written = << >>
    /\ wlog = ""
    /\ writing = NoFile
    /\ fetched = NoFetch
    /\ mpc = "sleep"
    /\ candidates = << >>
    /\ processed = << >>
    /\ mlog = ""

\* no browser operation has returned
NoRes == [result |-> "none"]

\* no process has started a browser
InitSession ==
    /\ holder = "server"
    /\ SESSION_MARKER = FALSE
    /\ _ctx = "none"
    /\ _pw = "none"
    /\ spc = "idle"
    /\ closes = 0
    /\ stops = 0
    /\ sres = NoRes
    /\ waited = "none"
    /\ RESET_SESSION = FALSE

\* no function is applied on its own
InitPure ==
    /\ fnArg = NoArg
    /\ fnRet = NoRet

(***************************************************************************)
(* The Action Executor and the human at the approval directories           *)
(***************************************************************************)
Init ==
    /\ clock = 0
    /\ InitVault
    /\ DRY_RUN \in BOOLEAN
    /\ InitTasks
    /\ InitSession
    /\ InitPure
    /\ kind = "gmail"

NextGate ==
    \/ \E u \in Users : SendDmGate(u)
    \/ SendDmExec
    \/ \E img \in Images : PostToFeedGate(img)
    \/ PostToFeedExec
    \/ \E r \in Requests : CreateApprovalRequest(r[1], r[2])
    \/ \E c \in Checks : CheckApprovalStatus(c[1], c[2])
    \/ \E n \in ApprovalNames : HumanMoveToApproved(n)
    \/ \E n \in ApprovalNames : HumanEditPending(n)
    \/ \E n \in ApprovalNames : HumanEditApproved(n)
    \/ \E n \in ApprovalNames : HumanReject(n)
    \/ \E hf \in HumanFiles : HumanPlace(hf)
    \/ \E n \in ApprovalNames : HumanRemove(n)
    \/ HumanRmdirApproved
    \/ Deliver

SpecGate == Init /\ [][NextGate]_vars

(***************************************************************************)
(* A watcher, the Task Mover, the clock and the human at the task store    *)
(***************************************************************************)
InitT ==
    /\ clock = 0
    /\ InitVault
    /\ DRY_RUN = FALSE
    /\ InitTasks
    /\ InitSession
    /\ InitPure
    /\ kind \in WatcherKinds

NextTasks ==
    \/ FetchItems
    \/ FetchNothing
    \/ FetchItemsRaise
    \/ ProcessItem
    \/ ProcessItemRaise
    \/ WatcherCycleEnd
    \/ WatcherInterrupt
    \/ MoverScan
    \/ MoverScanRaise
    \/ ProcessFileWrite
    \/ ProcessFileMove
    \/ MoverScanEnd
    \/ MoverInterrupt
    \/ MoverStart
    \/ Tick

SpecTasks == InitT /\ [][NextTasks]_vars

(***************************************************************************)
(* The Task Mover, the clock and the human at the task store               *)
(***************************************************************************)
InitM ==
    /\ clock = 0
    /\ InitVault
    /\ DRY_RUN = FALSE
    /\ InitTasks
    /\ InitSession
    /\ InitPure
    /\ kind = "gmail"

NextMover ==
    \/ MoverScan
    \/ MoverScanRaise
    \/ ProcessFileWrite
    \/ ProcessFileRaise
    \/ ProcessFileMove
    \/ MoverScanEnd
    \/ MoverInterrupt
    \/ MoverStart
    \/ \E ht \in HumanTasks : HumanDrop(ht)
    \/ Tick

SpecMover == InitM /\ [][NextMover]_vars

(***************************************************************************)
(* A watcher that is stopped and started again, and the clock              *)
(***************************************************************************)
NextRestart ==
    \/ FetchItems
    \/ FetchNothing
    \/ FetchItemsRaise
    \/ ProcessItem
    \/ ProcessItemRaise
    \/ WatcherCycleEnd
    \/ WatcherInterrupt
    \/ WatcherStart
    \/ Tick

SpecRestart == InitT /\ [][NextRestart]_vars

(***************************************************************************)
(* The Gmail watcher and a Task Mover that is scheduled fairly             *)
(***************************************************************************)
NextRecover ==
    \/ FetchItems
    \/ ProcessItem
    \/ WatcherCycleEnd
    \/ MoverScan
    \/ ProcessFileWrite
    \/ ProcessFileMove
    \/ MoverScanEnd
    \/ MoverInterrupt
    \/ MoverStart
    \/ Tick

\* the Mover goes on: it polls for ever (while True ... time.sleep(POLL_INTERVAL)),
\* every scan and every call of process_file comes to its end, a Mover that has
\* stopped is started again, and from some time on no file operation fails.
\* process_file is enabled exactly while the scan has a candidate left, so its
\* weak fairness is stated by that condition.
FairMover ==
    /\ WF_vars(MoverScan)
    /\ WF_vars(ProcessFileMove)
    /\ WF_vars(MoverScanEnd)
    /\ WF_vars(MoverStart)
    /\ []<>~(mpc = "scan" /\ candidates # << >>)
    /\ <>[](mlog \notin {"ERROR reading", "ERROR writing", "ERROR moving"})

SpecRecover == InitM /\ [][NextRecover]_vars /\ FairMover

(***************************************************************************)
(* A DM watcher whose write_text is seen step by step, and the Task Mover  *)
(***************************************************************************)
InitF ==
    /\ clock = 0
    /\ InitVault
    /\ DRY_RUN = FALSE
    /\ InitTasks
    /\ InitSession
    /\ InitPure
    /\ kind = "whatsapp"

NextFlight ==
    \/ FetchItems
    \/ ProcessItemOpen
    \/ ProcessItemClose
    \/ WatcherCycleEnd
    \/ MoverScan
    \/ ProcessFileWrite
    \/ ProcessFileMove
    \/ MoverScanEnd
    \/ Tick

SpecFlight == InitF /\ [][NextFlight]_vars

(***************************************************************************)
(* inbox_watcher.py: the watcher of the Inbox folder                       *)
(***************************************************************************)
\* str(n) and f"{n:,}" of a size
RECURSIVE DecStr(_)
DecStr(n) ==
    IF n < 10 THEN Ch(Digits, n + 1)
    ELSE DecStr(n \div 10) \o Ch(Digits, (n % 10) + 1)

RECURSIVE Grouped(_)
Grouped(n) ==
    IF n < 1000 THEN DecStr(n)
    ELSE Grouped(n \div 1000) \o ","
           \o Ch(Digits, ((n % 1000) \div 100) + 1)
           \o Ch(Digits, ((n % 100) \div 10) + 1)
           \o Ch(Digits, (n % 10) + 1)

\* the files that appear in Inbox: <<name, size in bytes>>.  A name can appear
\* again after the file was taken out of Inbox.
InboxFiles ==
    { << "report.pdf", 10 >>, << "report.pdf", 1200 >>, << "todo.md", 10 >>,
      << ".DS_Store", 10 >>, << "movie.part", 1200 >> }

\* the bytes of a file of Inbox (no header block)
FileBytes(name, size) == "<the " \o DecStr(size) \o " bytes of " \o name \o ">"

\* the index of the last "." of s (0: none)
RECURSIVE LastDot(_, _)
LastDot(s, i) == IF i < 1 THEN 0 ELSE IF Ch(s, i) = "." THEN i ELSE LastDot(s, i - 1)

\* Path(name).suffix
Suffix(name) ==
    LET i == LastDot(name, Len(name))
    IN  IF 1 < i /\ i < Len(name) THEN SubSeq(name, i, Len(name)) ELSE ""

\* on_created ignores hidden and temporary files
IgnoredName(name) ==
    StartsWith(name, ".") \/ Suffix(name) \in {".tmp", ".part", ".crdownload"}

\* md_name of _handle_file
FileDropName(name) == "FILE_DROP_" \o name \o ".md"

\* content of _handle_file
FileDropContent(name, size, t) ==
    Join(<<
        "---",
        "type: file_drop",
        "original_name: " \o name,
        "size: " \o DecStr(size),
        "received: " \o NowStr(t),
        "status: pending",
        "source: inbox_watcher",
        "---",
        "",
        "## New File Dropped: " \o name,
        "",
        "| Field             | Value |",
        "|-------------------|-------|",
        "| **File name**     | '" \o name \o "' |",
        "| **Size**          | " \o Grouped(size) \o " bytes |",
        "| **Received**      | " \o NowStr(t) \o " |",
        "| **Copied to**     | 'Needs_Action/" \o name \o "' |",
        "",
        "---",
        "",
        "New file dropped into Inbox/ and queued for processing.",
        "",
        "### Suggested Actions",
        "",
        "- [ ] Review file contents",
        "- [ ] Process / import into workflow",
        "- [ ] Delete if not needed",
        "",
        "---",
        "",
        "*Created by Inbox Watcher - Panaversity AI Employee Hackathon Silver Tier*",
        "*Logged at: " \o NowStr(t) \o "*"
        >>, "\n") \o "\n"

\* the ways _handle_file can go: the file is gone when the handler looks,
\* shutil.copy2 raises OSError, write_text raises OSError, or all is written
HandleOutcomes == {"gone", "copy fails", "write fails", "ok"}

\* InboxHandler.on_created(event) for a file f that appeared in Inbox, with
\* _handle_file(src): the file may be gone again after the half second the
\* handler waits; shutil.copy2 and write_text may raise OSError.  wlog is the
\* last line the handler logged; written records <<text, name>> of each
\* metadata record the handler wrote.  The observer polls Inbox every 3
\* seconds, so a name is not reported twice within one second.
InboxCreated(f) ==
    /\ kind = "inbox"
    /\ \A dir \in {needs_action, done} :
          FileDropName(f[1]) \in DOMAIN dir
             => HeaderField(dir[FileDropName(f[1])], "received") # NowStr(clock)
    /\ LET name == f[1]
           md_name == FileDropName(name)
           content == FileDropContent(name, f[2], clock)
       IN  \E o \in HandleOutcomes :
             IF IgnoredName(name)
             THEN /\ wlog' = "Ignored temp file"
                  /\ UNCHANGED << needs_action, written >>
             ELSE IF o = "gone"
             THEN /\ wlog' = "File disappeared before processing"
                  /\ UNCHANGED << needs_action, written >>
             ELSE IF o = "copy fails"
             THEN /\ wlog' = "Could not copy"
                  /\ UNCHANGED << needs_action, written >>
             ELSE IF o = "write fails"
             THEN /\ wlog' = "Could not write"
                  /\ needs_action' = Put(needs_action, name, FileBytes(name, f[2]))
                  /\ UNCHANGED written
             ELSE /\ Len(written) < MaxWritten
                  /\ wlog' = "Created"
                  /\ needs_action' = Put(Put(needs_action, name, FileBytes(name, f[2])),
                                         md_name, content)
                  /\ written' = Append(written, << content, md_name >>)
    /\ UNCHANGED << clock, pureVars, sessionVars, fetched, dashboard, approvalVars, done, kind, writing, _processed_ids, wpc, batch,
                    created, moverVars >>

InitI ==
    /\ clock = 0
    /\ InitVault
    /\ DRY_RUN = FALSE
    /\ InitTasks
    /\ InitSession
    /\ InitPure
    /\ kind = "inbox"

NextInbox ==
    \/ \E f \in InboxFiles : InboxCreated(f)
    \/ MoverScan
    \/ ProcessFileWrite
    \/ ProcessFileMove
    \/ MoverScanEnd
    \/ Tick

SpecInbox == InitI /\ [][NextInbox]_vars

(***************************************************************************)
(* watcher.py: parse_frontmatter, rebuild_frontmatter and the rewrite of   *)
(* process_file, applied on their own                                      *)
(***************************************************************************)
MaxLines == 2          \* a header block drawn for the round trip has at most this many lines

\* lines a header block can hold: plain fields, blanks around key and value, a
\* second colon, no colon, an empty key, an empty value, a leading rule
HeaderLines ==
    { "status: pending", "title:  call Bob  ", "Status : x", "note",
      "time: 10:00:00", "---x: v", ": v", "k:", "status:PENDING" }

HeaderBlocks == UNION { [1..n -> HeaderLines] : n \in 0..MaxLines }

Bodies == { "", "Call Bob.\n", "\n---\nrule\n" }

\* the records with a header block made of such lines
HeaderTexts ==
    { "---\n" \o Join(b, "\n") \o "\n---\n" \o body : b \in HeaderBlocks, body \in Bodies }

\* the records the watchers write
RecordTexts ==
    UNION { { TextOf[k][item][t] : item \in Items(k), t \in 0..MaxClock } :
            k \in WatcherKinds }
    \cup { FileDropContent(f[1], f[2], t) : f \in InboxFiles, t \in 0..MaxClock }

\* the arguments: a record to parse, rebuild and parse again, or a record for
\* process_file to rewrite
HeaderArgs ==
    { [op |-> o, text |-> x] : o \in {"round trip", "rewrite"},
                               x \in HeaderTexts \cup RecordTexts }

\* fm, body = parse_frontmatter(text); parse_frontmatter(rebuild_frontmatter(fm, body))
RoundTrip ==
    /\ fnArg # NoArg
    /\ fnArg.op = "round trip"
    /\ fnRet = NoRet
    /\ LET p == ParseFrontmatter(fnArg.text)
       IN  /\ p.ok
           /\ fnRet' = [op |-> "round trip", fm |-> p.fm, body |-> p.body,
                        again |-> ParseFrontmatter(rebuild_frontmatter(p.fm, p.body))]
    /\ UNCHANGED << clock, gateVars, taskVars, fnArg, sessionVars, fetched >>

\* process_file from the parse to updated_content, for a record with status
\* pending
Rewrite ==
    /\ fnArg # NoArg
    /\ fnArg.op = "rewrite"
    /\ fnRet = NoRet
    /\ LET p == ParseFrontmatter(fnArg.text)
       IN  /\ p.ok
           /\ StatusOf(p.fm) = "pending"
           /\ fnRet' = [op |-> "rewrite", ts |-> NowStr(clock),
                        text |-> UpdatedContent(p.fm, p.body, NowStr(clock))]
    /\ UNCHANGED << clock, gateVars, taskVars, fnArg, sessionVars, fetched >>

InitH ==
    /\ clock = 0
    /\ InitVault
    /\ DRY_RUN = FALSE
    /\ InitTasks
    /\ InitSession
    /\ kind = "gmail"
    /\ fnArg \in HeaderArgs
    /\ fnRet = NoRet

NextHeader ==
    \/ RoundTrip
    \/ Rewrite
    \/ Tick

SpecHeader == InitH /\ [][NextHeader]_vars

(***************************************************************************)
(* whatsapp_watcher.py / instagram_watcher.py: _dedup_key applied on its   *)
(* own to two chat rows                                                    *)
(***************************************************************************)
\* the senders and message previews of the chat rows: the same name in other
\* case and with blanks around it, a name that holds the separator of the
\* key, previews that differ in case and spacing only, and two previews that
\* agree in their first 80 characters
KeySenders == { "Bob", " BOB ", "Ann", "Bob::pay" }
Long80 == "invoice 4711 is overdue since monday please transfer the amount to the account x"
KeyMessages ==
    { "pay  now", " Pay now", "now", "pay::now", Long80 \o " today", Long80 \o " or else" }

KeyArgs ==
    { [op |-> "dedup key", a |-> << s1, m1 >>, b |-> << s2, m2 >>] :
        s1 \in KeySenders, m1 \in KeyMessages, s2 \in KeySenders, m2 \in KeyMessages }

\* key = self._dedup_key(chat["sender"], chat["message"]) for two chat rows
ApplyDedupKey ==
    /\ fnArg # NoArg
    /\ fnArg.op = "dedup key"
    /\ fnRet = NoRet
    /\ fnRet' = [op |-> "dedup key",
                 a |-> _dedup_key(fnArg.a[1], fnArg.a[2]),
                 b |-> _dedup_key(fnArg.b[1], fnArg.b[2])]
    /\ UNCHANGED << clock, gateVars, taskVars, fnArg, sessionVars, fetched >>

InitK ==
    /\ clock = 0
    /\ InitVault
    /\ DRY_RUN = FALSE
    /\ InitTasks
    /\ InitSession
    /\ kind = "whatsapp"
    /\ fnArg \in KeyArgs
    /\ fnRet = NoRet

NextKey == ApplyDedupKey

SpecKey == InitK /\ [][NextKey]_vars

(***************************************************************************)
(* Properties of the approval gate (checked under SpecGate)                *)
(***************************************************************************)
\* the lookups the tools make: <<action type, subject>>
GateLookups ==
    { << "DM", u >> : u \in Users } \cup { << "POST", "" >> }
        \cup { << Upper(c[1]), c[2] >> : c \in Checks }

\* this step is the gate of an invocation of the gated operation op
GateStep(op) ==
    /\ call = Idle
    /\ out = NoOut
    /\ \/ out' # NoOut /\ out'.op = op
       \/ call' # Idle /\ call'.op = op

\* the argument of the invocation whose gate this step is
GateArg == IF out' # NoOut THEN out'.arg ELSE call'.arg

\* the lookup the gate of op makes for the argument arg
GateLookup(op, arg) ==
    IF op = "send_dm" THEN FindApproval("DM", arg) ELSE FindApproval("POST", "")

GatedOps == {"send_dm", "post_to_feed"}

\* the step returns the blocked message and does nothing else
BlockedStep ==
    /\ out' # NoOut
    /\ StartsWith(out'.result, "ACTION BLOCKED")
    /\ ~out'.raised
    /\ ~out'.ctx
    /\ out'.effect = "none"
    /\ out'.dash = "none"
    /\ call' = Idle
    /\ UNCHANGED << dashboard, approvedExists, approved, unreadable, pending, rejected >>

\* C1: a gated operation (send_dm, post_to_feed) invoked while find_approval
\* returns no record returns the blocked message, acquires no browser context,
\* performs no external effect and writes nothing to the vault; a browser
\* context is asked for or an effect performed only by an invocation whose own
\* gate check found an approved record.
C1_BlockedWithoutApproval ==
    /\ [][\A op \in GatedOps :
            GateStep(op) =>
              /\ GateLookup(op, GateArg) = {None} => BlockedStep
              /\ call' # Idle => call'.approval \in GateLookup(op, GateArg) \ {None}]_vars
    /\ [](call # Idle => call.approval # None)
    /\ [](out # NoOut /\ out.op \in GatedOps /\ (out.ctx \/ out.effect # "none")
            => out.approval # None)
    /\ [][out = NoOut /\ call # Idle /\ out' # NoOut /\ out'.op \in GatedOps
            => out'.approval = call.approval]_vars

\* a gated operation was blocked while Approved holds a file
C1_Witness ==
    /\ out # NoOut
    /\ out.op \in GatedOps
    /\ StartsWith(out.result, "ACTION BLOCKED")
    /\ DOMAIN approved # {}

\* the status field of the header block of a record ("" when there is none)
HeaderStatus(text) ==
    LET p == ParseFrontmatter(text)
    IN  IF p.ok THEN Lower(FmGet(p.fm, "status", "")) ELSE ""

\* C2: find_approval returns a record only if it is in Approved and the status
\* field of its header equals 'approved'; a record whose header still says
\* 'pending' grants nothing.
C2_OnlyHeaderApproved ==
    \A l \in GateLookups :
        \A f \in FindApproval(l[1], l[2]) \ {None} :
            f \in DOMAIN approved /\ HeaderStatus(approved[f]) = "approved"

\* the filename condition of find_approval for the file name f
NameCond(f, action_type, subject) ==
    LET prefix == "APPROVAL_INSTAGRAM_" \o action_type
    IN  /\ StartsWith(Upper(f), prefix)
        /\ \/ subject = ""
           \/ Contains(Upper(f), Upper(_slug(subject)))
           \/ Upper(f) = prefix \o ".MD"

\* the body-marker condition for the text of a file
MarkerCond(text) == InLower("status: approved", text)

\* the files of Approved that satisfy both conditions as the claim states them
BothAsStated(action_type, subject) ==
    { f \in DOMAIN approved :
        NameCond(f, action_type, subject) /\ MarkerCond(approved[f]) }

\* the '*.md' files of Approved that can be read and satisfy both conditions
Both(action_type, subject) ==
    { f \in DOMAIN approved :
        /\ EndsWith(f, ".md")
        /\ f \notin unreadable
        /\ NameCond(f, action_type, subject)
        /\ MarkerCond(approved[f]) }

\* C3 as stated: find_approval returns none when no file of Approved satisfies
\* both the filename and the body-marker condition, and a file satisfying both
\* whenever there is one.
C3_AsStated ==
    \A l \in GateLookups :
        LET found == FindApproval(l[1], l[2])
            both == BothAsStated(l[1], l[2])
        IN  IF both = {} THEN found = {None} ELSE found \subseteq both

\* C3: find_approval returns none when Approved is absent, is empty or holds
\* no readable '*.md' file that satisfies both the filename condition (compared
\* in upper case) and the body-marker condition; a file satisfying only one of
\* them is never returned; when some readable '*.md' file satisfies both, such
\* a file is returned.
C3_FindApproval ==
    \A l \in GateLookups :
        LET found == FindApproval(l[1], l[2])
            both == Both(l[1], l[2])
        IN  /\ (~approvedExists \/ DOMAIN approved = {}) => found = {None}
            /\ IF both = {} THEN found = {None} ELSE found \subseteq both

\* Approved holds a file that satisfies both conditions for a lookup, next to
\* a file that satisfies the marker condition only
C3_Witness ==
    \E l \in GateLookups :
        /\ Both(l[1], l[2]) # {}
        /\ \E f \in DOMAIN approved :
             MarkerCond(approved[f]) /\ ~NameCond(f, l[1], l[2])

\* the valid requests: <<action type as passed, ACTION TYPE, subject>>
ValidRequests ==
    { << r[1], Strip(Upper(r[1])), r[2] >> : r \in { q \in Requests : Strip(Upper(q[1])) \in {"DM", "POST"} } }

\* the text create_approval_request wrote for the request r
CreatedTexts(r) == { ApprovalContent(r[2], r[3], Details, t) : t \in 0..MaxClock }

\* the file created for r is in Approved, readable, its status set to approved
CreatedAndApproved(r) ==
    LET n == ApprovalFileName(r[2], r[3])
    IN  /\ n \in DOMAIN approved
        /\ n \notin unreadable
        /\ \E c \in CreatedTexts(r) :
             approved[n] = ReplaceFirst(c, "status: pending\n", "status: approved\n")

\* the file created for r is in Pending_Approval as it was written and the
\* human has not acted since
CreatedUntouched(r) ==
    LET n == ApprovalFileName(r[2], r[3])
    IN  /\ n \in fresh
        /\ n \in DOMAIN pending
        /\ pending[n] \in CreatedTexts(r)

\* this step is check_approval_status(r[1], r[3])
CheckStep(r) ==
    /\ out = NoOut
    /\ out' # NoOut
    /\ out'.op = "check_approval_status"
    /\ out'.arg = << r[1], r[3] >>

\* the gated operation of the request r
GatedOpOf(r) == IF r[2] = "DM" THEN "send_dm" ELSE "post_to_feed"

\* this step is the gate of the gated operation of r, for the subject of r
GateStepOf(r) ==
    /\ GateStep(GatedOpOf(r))
    /\ r[2] = "DM" => GateArg = r[3]

\* the approved part of C4 and of its statement as given
C4_Approved(r) ==
    /\ CheckStep(r) /\ CreatedAndApproved(r) => StartsWith(out'.result, "APPROVED")
    /\ GateStepOf(r) /\ CreatedAndApproved(r) =>
         \/ call' # Idle
         \/ out' # NoOut /\ ~StartsWith(out'.result, "ACTION BLOCKED")

\* C4 as stated: after create_approval_request, once the human moved the file
\* to Approved and set its status, the check reports approved and the gated
\* operation passes the gate; before the human acts the check reports not
\* approved.
C4_AsStated ==
    [][\A r \in ValidRequests :
         /\ C4_Approved(r)
         /\ CheckStep(r) /\ CreatedUntouched(r) => StartsWith(out'.result, "NOT APPROVED")]_vars

\* C4: after create_approval_request, once the human moved the file to Approved
\* and set its status, the check reports approved and the gated operation
\* passes the gate; before the human acts the check reports not approved,
\* provided Approved holds no other readable record that matches the request
\* (a blanket file, or a file whose name contains the slug of the subject).
C4_ApprovalFlow ==
    [][\A r \in ValidRequests :
         /\ C4_Approved(r)
         /\ CheckStep(r) /\ CreatedUntouched(r) /\ Both(r[2], r[3]) = {}
              => StartsWith(out'.result, "NOT APPROVED")]_vars

\* the check reported approved for a request whose file the human moved and edited
C4_Witness ==
    \E r \in ValidRequests :
        /\ out # NoOut
        /\ out.op = "check_approval_status"
        /\ out.arg = << r[1], r[3] >>
        /\ StartsWith(out.result, "APPROVED")
        /\ out.approval = ApprovalFileName(r[2], r[3])
        /\ CreatedAndApproved(r)

\* this step is a gated operation invoked in dry-run mode whose gate passes
DryRunStep(op) ==
    /\ GateStep(op)
    /\ DRY_RUN
    /\ None \notin GateLookup(op, GateArg)

\* the step returns the dry-run description without touching the browser
DryRunReturn ==
    /\ out' # NoOut
    /\ call' = Idle
    /\ StartsWith(out'.result, "[DRY-RUN] Would ")
    /\ ~out'.raised
    /\ ~out'.ctx
    /\ out'.effect = "none"

\* C10 as stated: in dry-run mode a gated operation whose gate passes acquires
\* no browser context, performs no effect, returns a description and appends
\* exactly one dashboard entry.
C10_AsStated ==
    [][\A op \in GatedOps :
         DryRunStep(op) => DryRunReturn /\ Len(dashboard') = Len(dashboard) + 1]_vars

\* C10: in dry-run mode a gated operation whose gate passes acquires no browser
\* context, performs no effect, returns a description and calls
\* append_dashboard once: one entry is appended when the append succeeds, none
\* when it fails (append_dashboard logs the error and returns).
C10_DryRun ==
    /\ [][\A op \in GatedOps :
            DryRunStep(op) =>
              /\ DryRunReturn
              /\ out'.dash \in {"written", "failed"}
              /\ out'.dash = "written" =>
                   /\ Len(dashboard') = Len(dashboard) + 1
                   /\ SubSeq(dashboard', 1, Len(dashboard)) = dashboard
                   /\ Contains(dashboard'[Len(dashboard')], "[DRY-RUN]")
              /\ out'.dash = "failed" => dashboard' = dashboard]_vars
    /\ [](DRY_RUN => call = Idle)
    /\ [](DRY_RUN /\ out # NoOut /\ out.op \in GatedOps => ~out.ctx /\ out.effect = "none")

\* a dry run of post_to_feed passed the gate and its entry is in the dashboard
C10_Witness ==
    /\ DRY_RUN
    /\ out # NoOut
    /\ out.op = "post_to_feed"
    /\ StartsWith(out.result, "[DRY-RUN] Would ")
    /\ out.dash = "written"
    /\ Len(dashboard) = 1

(***************************************************************************)
(* Properties of the watchers and the Task Mover (checked under SpecTasks  *)
(* and SpecMover)                                                          *)
(***************************************************************************)
\* the keys of the records the watcher has written
WrittenKeys == { written[i][1] : i \in 1..Len(written) }

\* a step of the watch loop that is one call of process_item
ProcessItemStep ==
    /\ wpc = "process"
    /\ wpc' = "process"
    /\ batch # << >>
    /\ batch' = Tail(batch)

\* a step of the watch loop that is a fetch_items returning new items
FetchStep == wpc = "sleep" /\ wpc' = "process"

\* C5: within one watcher lifetime at most one record is written per dedup
\* key: no two written records share a key, an item whose key was handled
\* (twice in one batch, with the first record in Needs_Action or already in
\* Done) creates nothing, and a fetch returns no item of a handled key.
C5_OneRecordPerKey ==
    /\ [](\A i, j \in 1..Len(written) : written[i][1] = written[j][1] => i = j)
    /\ [][ProcessItemStep /\ KeyOf[kind][Head(batch)] \in WrittenKeys
             => /\ needs_action' = needs_action
                /\ written' = written
                /\ created' = created]_vars
    /\ [][FetchStep
             => \A i \in 1..Len(batch') : KeyOf[kind][batch'[i]] \notin WrittenKeys]_vars

\* C5: the key of the next item of the batch was handled earlier in this batch
\* and the Mover has meanwhile moved its record to Done
C5_Witness ==
    /\ wpc = "process"
    /\ batch # << >>
    /\ \E i \in 1..Len(written) :
         /\ written[i][1] = KeyOf[kind][Head(batch)]
         /\ written[i][2] \in DOMAIN done
         /\ written[i][2] \notin DOMAIN needs_action

\* C6: every key in _processed_ids has a record that was written (and is in
\* the task store); a process_item whose write fails returns None, leaves the
\* set as it was, and the item is returned again by a fetch that sees it.
C6_KeyAfterWrite ==
    /\ [](\A key \in _processed_ids :
            \E i \in 1..Len(written) :
               /\ written[i][1] = key
               /\ written[i][2] \in DOMAIN needs_action \cup DOMAIN done)
    /\ [][ProcessItemStep /\ KeyOf[kind][Head(batch)] \notin _processed_ids
                          /\ written' = written
             => /\ created' = created
                /\ _processed_ids' = _processed_ids
                /\ \A raw \in RawBatches(kind) :
                     (\E i \in 1..Len(raw) : raw[i] = Head(batch))
                       => LET items == NewItems(kind, raw, {}, _processed_ids', 1)
                          IN  \E j \in 1..Len(items) : items[j] = Head(batch)]_vars

\* C6: a cycle has processed its whole batch, every write failed, and no key
\* was recorded
C6_Witness ==
    /\ wpc = "process"
    /\ batch = << >>
    /\ created = << >>
    /\ written = << >>
    /\ _processed_ids = {}
    /\ needs_action = EmptyDir

\* the record has a header block whose status field is 'pending' in any case
IsPending(text) == HeaderStatus(text) = "pending"

\* a step of the scan that is process_file up to its write-back
ProcessFileHead ==
    /\ mpc = "scan"
    /\ candidates # << >>
    /\ \/ mpc' = "scan" /\ candidates' = Tail(candidates)
       \/ mpc' = "move"

\* a step of the scan that is the move of process_file
ProcessFileTail == mpc = "move" /\ mpc' = "scan"

\* the file was rewritten as processed
Rewritten(dir, f) ==
    /\ f \in DOMAIN dir
    /\ HeaderStatus(dir[f]) = "processed"
    /\ HeaderField(dir[f], "processed_at") # ""

\* the files a scan never lists
NotListed(f) == ~EndsWith(f, ".md") \/ StartsWith(f, ".")

\* what holds of process_file whether or not a file operation fails: a file
\* that is not pending is left as it is, only a pending file is rewritten, and
\* only the move of a rewritten file changes Done
C7_OnlyPending ==
    /\ [][ProcessFileHead /\ Head(candidates) \in DOMAIN needs_action
                          /\ ~IsPending(needs_action[Head(candidates)])
             => /\ needs_action' = needs_action
                /\ done' = done
                /\ mpc' = "scan"]_vars
    /\ [][ProcessFileHead /\ (mpc' = "move" \/ needs_action' # needs_action)
             => /\ Head(candidates) \in DOMAIN needs_action
                /\ IsPending(needs_action[Head(candidates)])]_vars
    /\ [][done' # done => ProcessFileTail /\ Rewritten(needs_action, Head(candidates))]_vars
    /\ [][\A f \in DOMAIN needs_action :
            NotListed(f) => f \in DOMAIN needs_action' /\ needs_action'[f] = needs_action[f]]_vars

C9_StatusAgreesWithDirectory ==
    /\ \A f \in DOMAIN needs_action : HeaderStatus(needs_action[f]) = "pending"
    /\ \A f \in DOMAIN done : HeaderStatus(done[f]) = "processed"

(***************************************************************************)
(* Properties of the execution of the gated operations (SpecGate)          *)
(***************************************************************************)
\* this step is the return of a gated operation that passed its gate outside
\* dry-run mode: the rest of send_dm / post_to_feed after the first await
ExecStep ==
    /\ call # Idle
    /\ out = NoOut
    /\ out' # NoOut
    /\ out'.op \in GatedOps
    /\ call' = Idle

\* C11: outside dry-run mode no exception leaves send_dm or post_to_feed: every
\* response of a gated operation is a returned string, never a raised
\* exception.
C11_NoExceptionEscapes ==
    out # NoOut /\ out.op \in GatedOps => ~out.raised

\* C12: an approved, non-dry-run invocation of send_dm or post_to_feed that
\* returns (a confirmation or an error description) appends one dashboard
\* entry, unless the append itself fails.
C12_OneEntryPerExecution ==
    [][ExecStep /\ ~out'.raised /\ out'.dash # "failed"
         => /\ Len(dashboard') = Len(dashboard) + 1
            /\ SubSeq(dashboard', 1, Len(dashboard)) = dashboard]_vars

(***************************************************************************)
(* Properties of the dashboard blocks and of the loops (SpecTasks,         *)
(* SpecMover)                                                              *)
(***************************************************************************)
\* this step ends a poll cycle of the watcher: the loop goes from its batch to
\* its sleep
CycleEndStep == wpc = "process" /\ wpc' = "sleep"

\* this step ends a scan of the Mover: the loop goes from its candidates to
\* its sleep
ScanEndStep == mpc = "scan" /\ mpc' = "sleep"

\* the step appends one block to the dashboard that names each of the files
OneBlockNaming(names) ==
    /\ Len(dashboard') = Len(dashboard) + 1
    /\ SubSeq(dashboard', 1, Len(dashboard)) = dashboard
    /\ \A i \in 1..Len(names) : Contains(dashboard'[Len(dashboard')], "'" \o names[i] \o "'")

\* C13: a poll cycle in which records were written ends with one dashboard
\* block that names them (unless the append itself fails), also when a later
\* item of the batch raised; a cycle without a written record appends nothing.
C13_OneBlockPerCycle ==
    [][CycleEndStep /\ wlog' # "Could not update dashboard"
         => IF created # << >> THEN OneBlockNaming(created)
                               ELSE dashboard' = dashboard]_vars

\* C14: a Mover scan in which records were transitioned ends with one
\* dashboard block that names them (unless the append itself fails); a scan
\* without a transition appends nothing.
C14_OneBlockPerScan ==
    [][ScanEndStep /\ mlog' # "WARNING: could not update dashboard"
         => IF processed # << >> THEN OneBlockNaming(processed)
                                 ELSE dashboard' = dashboard]_vars

\* the watch loop has just logged an unexpected error
WatcherRaised ==
    /\ wlog' = "Unexpected error in watch loop"
    /\ (wlog' # wlog \/ wpc' # wpc)

\* the Mover's loop has just logged an unexpected error
MoverRaised ==
    /\ mlog' = "UNEXPECTED ERROR"
    /\ (mlog' # mlog \/ mpc' # mpc)

\* C15: an exception raised during a cycle never ends a loop: after it the
\* watcher and the Mover are asleep, where every cycle starts; a loop stops
\* only on KeyboardInterrupt, and a loop that is not in its cycle or asleep was
\* stopped by one.
C15_LoopsSurviveErrors ==
    /\ [][WatcherRaised => wpc' = "sleep"]_vars
    /\ [][MoverRaised => mpc' = "sleep"]_vars
    /\ [][wpc' = "stopped" /\ wpc # "stopped"
            => wlog' = "Watch loop stopped by user"]_vars
    /\ [][mpc' = "stopped" /\ mpc # "stopped"
            => mlog' = "Watcher stopped by user"]_vars
    /\ [](wpc \in {"sleep", "process"} \/ wlog = "Watch loop stopped by user")
    /\ [](mpc \in {"sleep", "scan", "move"} \/ mlog = "Watcher stopped by user")

\* both loops have logged an unexpected error after the watcher had written a
\* record, and both are asleep, not stopped
C15_Witness ==
    /\ wlog = "Unexpected error in watch loop"
    /\ wpc = "sleep"
    /\ mlog = "UNEXPECTED ERROR"
    /\ mpc = "sleep"
    /\ written # << >>

(***************************************************************************)
(* Properties of the approval records (SpecGate)                           *)
(***************************************************************************)
\* this step is a create_approval_request(r[1], r[3], details) that returns
CreateStep(r) ==
    /\ out = NoOut
    /\ out' # NoOut
    /\ out'.op = "create_approval_request"
    /\ out'.arg = << r[1], r[3] >>
    /\ ~out'.raised

\* the name of the request file of the pair r
RequestFile(r) == "APPROVAL_INSTAGRAM_" \o r[2] \o "_" \o _slug(r[3]) \o ".md"

\* the files of dir that are records of the pair r, by their header
RecordsOf(dir, r) ==
    { m \in DOMAIN dir :
        /\ HeaderField(dir[m], "action") = "instagram_" \o Lower(r[2])
        /\ HeaderField(dir[m], "subject") = "\"" \o r[3] \o "\"" }

\* C16: a create_approval_request that returns has written a record with
\* status 'pending' into Pending_Approval under the one file name of its
\* (action_type, subject); a file of that name is overwritten, every other file
\* of Pending_Approval is as it was, and Pending_Approval holds exactly one
\* record of the pair.
C16_OnePendingRecord ==
    [][\A r \in ValidRequests :
         CreateStep(r) =>
           /\ RequestFile(r) \in DOMAIN pending'
           /\ HeaderStatus(pending'[RequestFile(r)]) = "pending"
           /\ DOMAIN pending' = DOMAIN pending \cup {RequestFile(r)}
           /\ \A m \in DOMAIN pending \ {RequestFile(r)} : pending'[m] = pending[m]
           /\ RecordsOf(pending', r) = {RequestFile(r)}]_vars

\* the request was made again after the human had moved the record of the
\* first request to Approved: Pending_Approval holds the one new record of the
\* pair, under the same name, with status 'pending'
C16_Witness ==
    \E r \in ValidRequests :
        /\ out # NoOut
        /\ out.op = "create_approval_request"
        /\ out.arg = << r[1], r[3] >>
        /\ ~out.raised
        /\ RequestFile(r) \in fresh
        /\ RequestFile(r) \in DOMAIN approved
        /\ approved[RequestFile(r)] \in CreatedTexts(r)
        /\ RecordsOf(pending, r) = {RequestFile(r)}
        /\ HeaderStatus(pending[RequestFile(r)]) = "pending"

\* a step of a tool of the Action Executor: it takes up a call or answers one
ToolStep ==
    /\ out = NoOut
    /\ out' # NoOut \/ call' # call

\* a step of the human at the approval directories
HumanStep ==
    /\ out = NoOut
    /\ out' = NoOut
    /\ call' = call

\* C17: no step of a tool (send_dm, post_to_feed, create_approval_request,
\* check_approval_status) changes the files of Approved or of Rejected or
\* takes a file out of Pending_Approval, and none leaves in Pending_Approval a
\* record with status approved that was not there with that text before; the
\* files of Approved and Rejected change in steps of the human only.
C17_ToolsLeaveDecisionsAlone ==
    /\ [][ToolStep =>
            /\ approved' = approved
            /\ unreadable' = unreadable
            /\ rejected' = rejected
            /\ DOMAIN pending \subseteq DOMAIN pending'
            /\ \A n \in DOMAIN pending' :
                 HeaderStatus(pending'[n]) = "approved"
                    => n \in DOMAIN pending /\ pending'[n] = pending[n]]_vars
    /\ [][approved' # approved \/ rejected' # rejected => HumanStep]_vars

\* a tool has answered a request that was made again while the record of the
\* first request lies in Approved and another record lies in Rejected
C17_Witness ==
    /\ out # NoOut
    /\ out.op = "create_approval_request"
    /\ ~out.raised
    /\ \E r \in ValidRequests :
         /\ out.arg = << r[1], r[3] >>
         /\ RequestFile(r) \in DOMAIN approved
         /\ RequestFile(r) \in DOMAIN pending
         /\ HeaderStatus(pending[RequestFile(r)]) = "pending"

\* the gate of send_dm or post_to_feed has found an approval in this step
GatePassStep ==
    /\ call = Idle
    /\ out = NoOut
    /\ \/ call' # Idle /\ call'.op \in GatedOps
       \/ out' # NoOut /\ out'.op \in GatedOps /\ out'.approval # None

\* the approval the gate has found in this step
PassedApproval == IF call' # Idle THEN call'.approval ELSE out'.approval

\* find_approval(l[1], l[2]) finds an approval in the directory dir, whose
\* files unread cannot be read, in whatever order the directory is listed
PassesIn(exists, dir, unread, l) ==
    /\ exists
    /\ LET says == [f \in GlobMd(dir) |-> SaysApproved(dir, unread, f)]
       IN  \A o \in Orders(GlobMd(dir)) :
              FindApprovalLoop(o, says, "APPROVAL_INSTAGRAM_" \o Upper(l[1]), l[2]) # None

\* the gate lookup of the pair l finds an approval
Passes(l) == None \notin FindApproval(l[1], l[2])

\* C18: the step in which a gated operation passes its gate, and the step in
\* which it executes, leave Approved as it is, with the approval record in it;
\* and a gate lookup that finds an approval finds one after every step that is
\* not a step of the human.
C18_ApprovalNotConsumed ==
    /\ [][GatePassStep =>
            /\ approved' = approved
            /\ unreadable' = unreadable
            /\ approvedExists' = approvedExists
            /\ PassedApproval \in DOMAIN approved']_vars
    /\ [][ExecStep =>
            /\ approved' = approved
            /\ unreadable' = unreadable
            /\ approvedExists' = approvedExists]_vars
    /\ [][\A l \in GateLookups :
            Passes(l) /\ ~HumanStep
               => PassesIn(approvedExists', approved', unreadable', l)]_vars

\* a DM has gone out, or a dry run has answered, on an approval, and the gate
\* lookup for the same user still finds an approval
C18_Witness ==
    /\ out # NoOut
    /\ out.op = "send_dm"
    /\ out.approval # None
    /\ out.effect = "dm" \/ DRY_RUN
    /\ out.approval \in DOMAIN approved
    /\ Passes(<< "DM", out.arg >>)

(***************************************************************************)
(* Properties of the task store under the file-drop watcher (SpecInbox)    *)
(***************************************************************************)
\* text is the metadata record orig, as written or as the Mover rewrote it:
\* the same file, size and time of receipt
SameDrop(text, orig) ==
    /\ HeaderField(text, "type") = "file_drop"
    /\ HeaderField(text, "original_name") = HeaderField(orig, "original_name")
    /\ HeaderField(text, "size") = HeaderField(orig, "size")
    /\ HeaderField(text, "received") = HeaderField(orig, "received")

\* C19: every record the file-drop watcher has written is in Needs_Action or
\* in Done under its file name, whatever was written or moved later.
C19_RecordsKept ==
    \A i \in 1..Len(written) :
        \E dir \in {needs_action, done} :
            /\ written[i][2] \in DOMAIN dir
            /\ SameDrop(dir[written[i][2]], written[i][1])

DashText(dash) == Join(dash, "")

\* C21: in every step of every process the content of the dashboard before the
\* step is a prefix of its content after the step.
C21_DashboardAppendOnly ==
    [][StartsWith(DashText(dashboard'), DashText(dashboard))]_vars

\* the Mover has appended its block behind the block of a watcher
C21_Witness ==
    /\ Len(dashboard) = 2
    /\ BlocksOf(<< dashboard[1] >>, FALSE) = 1
    /\ BlocksOf(<< dashboard[2] >>, TRUE) = 1
    /\ mpc = "sleep"

(***************************************************************************)
(* Properties of the order of a scan (SpecTasks)                           *)
(***************************************************************************)
\* the names of l are in strictly increasing order
Increasing(l) == \A i \in 1..(Len(l) - 1) : StrLess(l[i], l[i + 1])

\* the places in the text of the quoted names of l are in increasing order
ListedInOrder(text, l) ==
    /\ \A i \in 1..Len(l) : Find(text, "'" \o l[i] \o "'", 1) > 0
    /\ \A i \in 1..(Len(l) - 1) :
          Find(text, "'" \o l[i] \o "'", 1) < Find(text, "'" \o l[i + 1] \o "'", 1)

\* C22: during a scan the files already moved, followed by the files still to
\* be processed, are in increasing order of name, each step of process_file
\* takes the first of the files still to be processed, and the block the scan
\* appends to the dashboard lists the moved files in that order.
C22_ScanOrder ==
    /\ [](mpc \in {"scan", "move"} => Increasing(processed \o candidates))
    /\ [][ProcessFileTail /\ processed' # processed
            => processed' = Append(processed, Head(candidates))]_vars
    /\ [][ScanEndStep /\ Len(dashboard') > Len(dashboard)
            => ListedInOrder(dashboard'[Len(dashboard')], processed)]_vars

\* a scan has moved two records, which the watcher wrote in the other order,
\* and has listed them in its block
C22_Witness ==
    /\ Len(written) = 2
    /\ StrLess(written[2][2], written[1][2])
    /\ mpc = "sleep"
    /\ dashboard # << >>
    /\ BlocksOf(<< dashboard[Len(dashboard)] >>, TRUE) = 1
    /\ ListedInOrder(dashboard[Len(dashboard)], << written[2][2], written[1][2] >>)

(***************************************************************************)
(* Properties of the header block (SpecHeader)                             *)
(***************************************************************************)
\* the keys of a header mapping
FmKeys(fm) == { fm[i][1] : i \in 1..Len(fm) }

NormSender(sender) == Lower(Strip(sender))

\* the message, trimmed, its runs of white space collapsed, cut to 80
\* characters, in lower case
NormMessage(message) == Lower(Trunc(CollapseSpace(Strip(message)), 80))

\* C24: two chat rows have the same dedup key exactly when their senders are
\* the same without regard to case and surrounding blanks and their messages
\* are the same after normalisation.
C24_KeyIffSameContent ==
    fnRet.op = "dedup key"
       => (fnRet.a = fnRet.b
             <=> /\ NormSender(fnArg.a[1]) = NormSender(fnArg.b[1])
                 /\ NormMessage(fnArg.a[2]) = NormMessage(fnArg.b[2]))

\* rows of the same sender with the same normalised message have the same key
C24_SameContentSameKey ==
    fnRet.op = "dedup key"
       => (NormSender(fnArg.a[1]) # NormSender(fnArg.b[1])
           \/ NormMessage(fnArg.a[2]) # NormMessage(fnArg.b[2])
           \/ fnRet.a = fnRet.b)

\* a step that starts a stopped watcher
WatcherStartStep == wpc = "stopped" /\ wpc' = "sleep"

\* C25: a watcher that is started again has an empty key set whatever
\* Needs_Action and Done hold, so fetch_items passes on every item the source
\* returns, and process_item writes a record for an item whose key was handled
\* before the restart: a second file, or the same file again.
C25_RestartForgets ==
    [][ /\ WatcherStartStep
           => /\ _processed_ids' = {}
              /\ \A raw \in RawBatches(kind) :
                    NewItems(kind, raw, {}, _processed_ids', 1) = raw
        /\ ( /\ ProcessItemStep
             /\ KeyOf[kind][Head(batch)] \in WrittenKeys
             /\ KeyOf[kind][Head(batch)] \notin _processed_ids )
           => LET filename == FileOf[kind][Head(batch)][clock]
              IN  \/ needs_action' = needs_action /\ written' = written
                  \/ /\ filename \in DOMAIN needs_action'
                     /\ needs_action'[filename] = TextOf[kind][Head(batch)][clock]
                     /\ written' = Append(written, << KeyOf[kind][Head(batch)], filename >>)
      ]_vars

\* two records of one key are in Needs_Action under two names: the second was
\* written after a restart
C25_Witness ==
    /\ Len(written) = 2
    /\ written[1][1] = written[2][1]
    /\ written[1][2] # written[2][2]
    /\ { written[1][2], written[2][2] } \subseteq DOMAIN needs_action

\* the records of dir whose header has the status approved
SayingApproved(dir) == { n \in DOMAIN dir : HeaderStatus(dir[n]) = "approved" }

MovedToApproved(r) ==
    /\ RequestFile(r) \in DOMAIN approved
    /\ RequestFile(r) \notin unreadable
    /\ approved[RequestFile(r)] \in CreatedTexts(r)

\* the file created for r is still in Pending_Approval, its status edited to
\* approved, and Approved holds no file of that name
EditedInPlace(r) ==
    /\ RequestFile(r) \in DOMAIN pending
    /\ RequestFile(r) \notin DOMAIN approved
    /\ \E c \in CreatedTexts(r) :
         pending[RequestFile(r)] = ReplaceFirst(c, "status: pending\n", "status: approved\n")

\* the gate of this step was passed: the call goes on, or the dry run answered
GatePassed ==
    \/ call' # Idle
    \/ out' # NoOut /\ ~StartsWith(out'.result, "ACTION BLOCKED")

\* C27: the human grants permission by moving the request file to Approved, or
\* by editing its status to approved where it is, in Pending_Approval; after
\* either step the gated operation, invoked again, passes the gate.
C27_EitherWay ==
    [][\A r \in ValidRequests :
         GateStepOf(r) /\ (MovedToApproved(r) \/ EditedInPlace(r)) => GatePassed]_vars

\* the first of the two ways of C27: the request file moved to Approved
C27_ByMoving ==
    [][\A r \in ValidRequests : GateStepOf(r) /\ MovedToApproved(r) => GatePassed]_vars

\* the gated operation of the action type of a check (none for other types)
CheckedOp(action_type) ==
    CASE Upper(action_type) = "DM"   -> "send_dm"
      [] Upper(action_type) = "POST" -> "post_to_feed"
      [] OTHER -> "none"

\* this step is check_approval_status(c[1], c[2])
CheckStepOf(c) ==
    /\ out = NoOut
    /\ out' # NoOut
    /\ out'.op = "check_approval_status"
    /\ out'.arg = c

\* the check leaves the vault, the dashboard and the pending call as they are
CheckFrame ==
    UNCHANGED << dashboard, approvedExists, approved, unreadable, pending, rejected,
                 needs_action, done, call >>

\* the gate of the operation op, invoked for subject, would pass
GateWouldPass(op, subject) == None \notin GateLookup(op, subject)

\* C28 as stated: check_approval_status(action_type, subject) reports approved
\* exactly when the gate of the gated operation of action_type would pass for
\* that subject in the same state, and it changes nothing.
C28_AsStated ==
    [][\A c \in Checks :
         CheckStepOf(c) /\ CheckedOp(c[1]) # "none"
           => /\ StartsWith(out'.result, "APPROVED")
                   <=> GateWouldPass(CheckedOp(c[1]), c[2])
              /\ CheckFrame]_vars

\* C28: check_approval_status changes nothing; for DM with any subject and for
\* POST with the empty subject it reports approved exactly when the gate of
\* the gated operation would pass; for POST with a subject it reports approved
\* only if the gate of post_to_feed would pass (the gate takes any approved
\* POST record, the check only one whose name holds the subject or the
\* blanket one).
C28_ReadOnlyProbe ==
    [][\A c \in Checks :
         CheckStepOf(c) /\ CheckedOp(c[1]) # "none"
           => /\ StartsWith(out'.result, "APPROVED")
                   => GateWouldPass(CheckedOp(c[1]), c[2])
              /\ (CheckedOp(c[1]) = "send_dm" \/ c[2] = "")
                   => (GateWouldPass(CheckedOp(c[1]), c[2])
                         => StartsWith(out'.result, "APPROVED"))
              /\ CheckFrame]_vars

\* a check for a post reported not approved while Approved holds a record that
\* lets post_to_feed pass
C28_Witness ==
    /\ out # NoOut
    /\ out.op = "check_approval_status"
    /\ CheckedOp(out.arg[1]) = "post_to_feed"
    /\ StartsWith(out.result, "NOT APPROVED")
    /\ GateWouldPass("post_to_feed", "")

\* the names of the records the Gmail watcher writes
EmailNames == { FileOf["gmail"][item][t] : item \in GmailItems, t \in 0..MaxClock }

\* C29: with a Mover that is scheduled fairly and started again after it
\* stopped, every record with status 'pending' in Needs_Action is in the end in
\* Done with status 'processed', also after a failed move or an interrupt
\* between the write-back and the move.
C29_Recovery ==
    \A n \in EmailNames :
        (n \in DOMAIN needs_action /\ IsPending(needs_action[n]))
            ~> (n \in DOMAIN done /\ HeaderStatus(done[n]) = "processed")

\* a step of the scan in which process_file moves its file to Done
MoveStep == mpc = "move" /\ mpc' = "scan" /\ processed' # processed

\* the file f is open for writing in process_item
InFlight(f) == writing # NoFile /\ writing.name = f

\* text is a record as a DM watcher rendered it, rewritten by process_file
RenderedAndNoted(text) ==
    \E item \in DmItems, t \in 0..MaxClock, ts \in 0..MaxClock :
        LET p == ParseFrontmatter(TextOf[kind][item][t])
        IN  text = UpdatedContent(p.fm, p.body, NowStr(ts))

Holders == {"server", "whatsapp", "instagram"}
BrowserWatchers == {"whatsapp", "instagram"}

\* how a browser launch or a navigation ends
CallOutcomes == {"ok", "raise"}
\* how a login or QR wait ends
WaitOutcomes == {"confirmed", "timeout"}

\* a process is about to start; the marker is there or not from earlier runs
InitS ==
    /\ clock = 0
    /\ InitVault
    /\ DRY_RUN = FALSE
    /\ InitTasks
    /\ InitPure
    /\ kind = "gmail"
    /\ holder \in Holders
    /\ SESSION_MARKER \in BOOLEAN
    /\ _ctx = "none"
    /\ _pw = "none"
    /\ spc = IF holder = "server" THEN "idle" ELSE "init"
    /\ closes = 0
    /\ stops = 0
    /\ sres = NoRes
    /\ waited = "none"
    /\ RESET_SESSION \in BOOLEAN

SessionFrame ==
    UNCHANGED << clock, gateVars, taskVars, pureVars, holder, RESET_SESSION,
                 fetched >>

\* instagram_mcp_server.py _invalidate_context: the context is closed and
\* dropped, the engine stopped and dropped, the marker removed
InvalidateContextKeeping ==
    /\ UNCHANGED << _ctx, _pw, closes, stops >>
    /\ SESSION_MARKER' = FALSE

_invalidate_context ==
    /\ closes' = IF _ctx = "open" THEN closes + 1 ELSE closes
    /\ _ctx' = "none"
    /\ stops' = IF _pw = "started" THEN stops + 1 ELSE stops
    /\ _pw' = "none"
    /\ SESSION_MARKER' = FALSE

\* _do_send_dm up to the new page: get_context returns the cached context or
\* launches the browser and, with no marker, waits for the login
ServerGetContext ==
    /\ holder = "server"
    /\ spc = "idle"
    /\ IF _ctx = "open"
       THEN /\ spc' = "page"
            /\ sres' = NoRes
            /\ UNCHANGED << SESSION_MARKER, _ctx, _pw, closes, stops, waited >>
       ELSE \E launch \in CallOutcomes, w \in WaitOutcomes :
            /\ _pw' = "started"
            /\ stops' = 0
            /\ IF launch = "raise"
               THEN /\ sres' = [result |-> "raised"]
                    /\ spc' = "idle"
                    /\ UNCHANGED << SESSION_MARKER, _ctx, closes, waited >>
               ELSE /\ _ctx' = "open"
                    /\ closes' = 0
                    /\ sres' = NoRes
                    /\ spc' = "page"
                    /\ IF RESET_SESSION \/ ~SESSION_MARKER
                       THEN /\ waited' = w
                            /\ SESSION_MARKER' = TRUE
                       ELSE UNCHANGED << SESSION_MARKER, waited >>
    /\ SessionFrame

\* _do_send_dm: the navigation, and the first half of _ensure_logged_in
ServerPage ==
    /\ holder = "server"
    /\ spc = "page"
    /\ \E nav \in {"inbox", "login", "raise"} :
        CASE nav = "raise" ->
               /\ sres' = [result |-> "ERROR: TimeoutError"]
               /\ spc' = "idle"
               /\ UNCHANGED SESSION_MARKER
          [] nav = "inbox" ->
               /\ spc' = "send"
               /\ UNCHANGED << SESSION_MARKER, sres >>
          [] nav = "login" ->
               /\ SESSION_MARKER' = FALSE
               /\ spc' = "relogin"
               /\ UNCHANGED sres
    /\ UNCHANGED << _ctx, _pw, closes, stops, waited >>
    /\ SessionFrame

\* _ensure_logged_in: the bounded wait for the manual login
ServerRelogin ==
    /\ holder = "server"
    /\ spc = "relogin"
    /\ \E w \in WaitOutcomes \cup {"error"} :
        /\ waited' = w
        /\ IF w = "confirmed"
           THEN /\ SESSION_MARKER' = TRUE
                /\ spc' = "send"
                /\ UNCHANGED << _ctx, _pw, closes, stops, sres >>
           ELSE /\ _invalidate_context
                /\ sres' = [result |-> SessionExpired]
                /\ spc' = "idle"
    /\ SessionFrame

\* _do_send_dm: search, select, compose, send
ServerSend ==
    /\ holder = "server"
    /\ spc = "send"
    /\ \E o \in {"sent", "failed"} :
        sres' = [result |-> IF o = "sent" THEN "DM sent" ELSE "ERROR: Exception"]
    /\ spc' = "idle"
    /\ UNCHANGED << SESSION_MARKER, _ctx, _pw, closes, stops, waited >>
    /\ SessionFrame

\* the entry point: mcp.run returns or is interrupted, and the process ends
ServerExit ==
    /\ holder = "server"
    /\ spc = "idle"
    /\ spc' = "exited"
    /\ UNCHANGED << SESSION_MARKER, _ctx, _pw, closes, stops, sres, waited >>
    /\ SessionFrame

\* whatsapp_watcher.py, instagram_watcher.py close(): two release steps, each
\* in a try block of its own
CloseBrowser(c, s) ==
    /\ closes' = IF _ctx = "open" THEN closes + 1 ELSE closes
    /\ _ctx' = IF _ctx = "open" /\ c = "ok" THEN "none" ELSE _ctx
    /\ stops' = IF _pw = "started" THEN stops + 1 ELSE stops
    /\ _pw' = IF _pw = "started" /\ s = "ok" THEN "none" ELSE _pw

\* main and __init__ of a browser watcher: the optional reset of the marker,
\* then _start_browser with the QR scan or login (no marker) or the
\* verification of the saved session (marker)
WatcherBrowserStart ==
    /\ holder \in BrowserWatchers
    /\ spc = "init"
    /\ \E launch \in CallOutcomes, nav \in CallOutcomes,
          w \in WaitOutcomes \cup {"timeout_login_visible"} :
        LET headless == SESSION_MARKER /\ ~RESET_SESSION IN
        CASE launch = "raise" ->
               /\ _pw' = "stopped"
               /\ stops' = 1
               /\ spc' = "failed"
               /\ SESSION_MARKER' = headless
               /\ UNCHANGED << _ctx, closes, waited >>
          [] launch = "ok" /\ nav = "raise" ->
               /\ _ctx' = "none"
               /\ closes' = 1
               /\ _pw' = "none"
               /\ stops' = 1
               /\ spc' = "failed"
               /\ SESSION_MARKER' = headless
               /\ UNCHANGED waited
          [] launch = "ok" /\ nav = "ok" ->
               /\ _ctx' = "open"
               /\ _pw' = "started"
               /\ UNCHANGED << closes, stops >>
               /\ waited' = w
               /\ IF ~headless
                  THEN /\ SESSION_MARKER' = (w = "confirmed")
                       /\ spc' = IF w = "confirmed" THEN "watch" ELSE "failed"
                  ELSE /\ SESSION_MARKER' = (w # "timeout_login_visible")
                       /\ spc' = IF w = "timeout_login_visible"
                                 THEN "failed" ELSE "watch"
    /\ UNCHANGED sres
    /\ SessionFrame

\* watch(): the main loop ends by a shutdown signal or an escaping error, and
\* the finally clause calls close()
WatcherLoopEnds ==
    /\ holder \in BrowserWatchers
    /\ spc = "watch"
    /\ \E c \in CallOutcomes, s \in CallOutcomes : CloseBrowser(c, s)
    /\ spc' = "exited"
    /\ UNCHANGED << SESSION_MARKER, sres, waited >>
    /\ SessionFrame

NextSession ==
    \/ ServerGetContext
    \/ ServerPage
    \/ ServerRelogin
    \/ ServerSend
    \/ ServerExit
    \/ WatcherBrowserStart
    \/ WatcherLoopEnds
    \/ Tick

SpecSession == InitS /\ [][NextSession]_vars

SessionTypeOK ==
    /\ _ctx \in {"none", "open"}
    /\ _pw \in {"none", "started", "stopped"}
    /\ closes \in 0..1
    /\ stops \in 0..1

(***************************************************************************)
(* C31: an invalid session found during a browser operation                *)
(***************************************************************************)
\* the operation found the login page and has removed the marker
LoginPageFound == spc = "page" /\ spc' = "relogin"
\* the bounded login wait succeeded and the operation goes on
ReloginSucceeded == spc = "relogin" /\ spc' = "send"
\* the bounded login wait failed and the operation returned
ReloginFailed == spc = "relogin" /\ spc' = "idle"

\* C31: when the Action Executor finds the login page during an operation,
\* it removes the session-ok marker and changes nothing else before it waits
\* for the login; when the wait succeeds the marker is there again, the
\* context is kept and the operation goes on; when the wait fails the marker
\* is absent, the cached context and the engine are dropped, the operation
\* returns the session-expired error without the external effect, and the
\* next call finds no context and no marker, so it launches and waits for a
\* login again.
C31_InvalidSession ==
    [][ /\ LoginPageFound =>
            /\ ~SESSION_MARKER'
            /\ UNCHANGED << _ctx, _pw, closes, stops, sres, waited >>
        /\ spc' = "relogin" => ~SESSION_MARKER'
        /\ spc = "relogin" =>
            \/ spc' = "relogin"
            \/ ReloginSucceeded /\ SESSION_MARKER' /\ _ctx' = "open"
                                /\ _ctx = "open" /\ sres' = sres
            \/ ReloginFailed /\ ~SESSION_MARKER' /\ _ctx' = "none"
                             /\ _pw' = "none" /\ sres'.result = SessionExpired
        /\ (spc = "idle" /\ sres.result = SessionExpired) =>
            (~SESSION_MARKER /\ _ctx = "none")
      ]_vars

\* the login wait of an operation failed: the context was closed once and
\* the operation returned the error
C31_Witness ==
    /\ holder = "server"
    /\ spc = "idle"
    /\ sres.result = SessionExpired
    /\ waited \in {"timeout", "error"}
    /\ closes = 1
    /\ stops = 1

(***************************************************************************)
(* C32: the release of the browser at the end of a process                 *)
(***************************************************************************)
\* at the end of the process each release step was attempted at most once,
\* and a context or an engine that is still held got its release call
ReleasedAtExit ==
    /\ closes <= 1
    /\ stops <= 1
    /\ _ctx = "open" => closes = 1
    /\ _pw = "started" => stops = 1

\* C32: when the main loop of a process that holds a browser has ended, the
\* context was closed and the engine stopped, each at most once, and the
\* failure of one release step did not prevent the other.
C32_ReleasedAtExit == spc = "exited" => ReleasedAtExit

\* the same for the two watchers alone, whose watch() calls close() in a
\* finally clause
C32_WatchersRelease ==
    (holder \in BrowserWatchers /\ spc = "exited") => ReleasedAtExit

(***************************************************************************)
(* C39: the creation of the session-ok marker                              *)
(***************************************************************************)
\* a step that creates the marker file
MarkerCreated == ~SESSION_MARKER /\ SESSION_MARKER'

\* C39: in every component the marker is created only by a step whose login
\* or QR wait was confirmed, never by one whose wait timed out.
C39_MarkerOnlyAfterLogin ==
    [][MarkerCreated => waited' = "confirmed"]_vars

\* the same for the two watchers and for the login wait inside a server
\* operation, which mark the session on the success path only
C39_WatchersAndRelogin ==
    [][(MarkerCreated /\ (holder \in BrowserWatchers \/ spc = "relogin"))
          => waited' = "confirmed"]_vars

(***************************************************************************)
(* C33: the Gmail watcher when the email source is unavailable             *)
(***************************************************************************)
\* the ids of the messages of a list
IdsOf(items) == { items[i].id : i \in 1..Len(items) }

\* what messages.list can return: each message of the mailbox once
GmailLists ==
    { raw \in RawBatches("gmail") :
        \A i, j \in 1..Len(raw) : raw[i].id = raw[j].id => i = j }

\* GmailWatcher.fetch_items with the two calls of the service: list(), which
\* may raise HttpError (the result is []), and get() for each listed message
\* whose id is not in _processed_ids, which may raise HttpError for the
\* messages at the positions `fails` (a warning, the message is left out).
\* A variant that takes the id of a message it could not fetch into the
\* dedup set comes first (a faulty one).
GmailFetchItemsMarking ==
    /\ kind = "gmail"
    /\ wpc = "sleep"
    /\ \E raw \in GmailLists, list_ok \in BOOLEAN :
       \E fails \in (IF list_ok THEN SUBSET (1..Len(raw)) ELSE {{}}) :
         LET listed == IF list_ok THEN raw ELSE << >>
             items == NewItems("gmail", listed, fails, _processed_ids, 1)
             failed == { raw[i].id : i \in fails } \ _processed_ids
         IN  /\ batch' = items
             /\ wpc' = IF items # << >> THEN "process" ELSE "sleep"
             /\ _processed_ids' = _processed_ids \cup failed
             /\ fetched' = [list_ok |-> list_ok, listed |-> raw, failed |-> failed,
                            retried |-> fetched.failed \cap IdsOf(items)]
             /\ wlog' = IF ~list_ok THEN "Gmail list() failed"
                        ELSE IF failed # {} THEN "Could not fetch message"
                        ELSE ""
    /\ created' = << >>
    /\ UNCHANGED << clock, pureVars, sessionVars, dashboard, approvalVars,
                    needs_action, done, kind, writing, written, moverVars >>

GmailFetchItems ==
    /\ kind = "gmail"
    /\ wpc = "sleep"
    /\ \E raw \in GmailLists, list_ok \in BOOLEAN :
       \E fails \in (IF list_ok THEN SUBSET (1..Len(raw)) ELSE {{}}) :
         LET listed == IF list_ok THEN raw ELSE << >>
             items == NewItems("gmail", listed, fails, _processed_ids, 1)
             failed == { raw[i].id : i \in fails } \ _processed_ids
         IN  /\ batch' = items
             /\ wpc' = IF items # << >> THEN "process" ELSE "sleep"
             /\ fetched' = [list_ok |-> list_ok, listed |-> raw, failed |-> failed,
                            retried |-> fetched.failed \cap IdsOf(items)]
             /\ wlog' = IF ~list_ok THEN "Gmail list() failed"
                        ELSE IF failed # {} THEN "Could not fetch message"
                        ELSE ""
    /\ created' = << >>
    /\ UNCHANGED << clock, pureVars, sessionVars, dashboard, approvalVars,
                    needs_action, done, kind, writing, _processed_ids, written,
                    moverVars >>

NextGmail ==
    \/ GmailFetchItems
    \/ FetchItemsRaise
    \/ ProcessItem
    \/ ProcessItemRaise
    \/ WatcherCycleEnd
    \/ Tick

SpecGmail == InitM /\ [][NextGmail]_vars

\* the listed messages that are neither known nor among those that failed
Remaining(listed, ids, failed) ==
    SelectSeq(listed, LAMBDA m : m.id \notin ids /\ m.id \notin failed)

C34_ScopeIsolation ==
    \A A \in Users : \A B \in Users :
        _slug(A) # _slug(B) =>
            ApprovalFileName("DM", A) \notin FindApproval("DM", B)

(***************************************************************************)
(* C35: the dry run and the approval gate                                  *)
(***************************************************************************)
\* the step returns a dry-run description
DryRunResult == out' # NoOut /\ StartsWith(out'.result, "[DRY-RUN]")

\* C35: with DRY_RUN set, a gated operation whose lookup finds no approved
\* record returns the blocked message, and neither a dry-run description nor
\* a dashboard entry is produced; a dry-run description is returned only by
\* an invocation whose gate found an approved record.
C35_DryRunBehindGate ==
    [][\A op \in GatedOps :
         (GateStep(op) /\ DRY_RUN) =>
           /\ GateLookup(op, GateArg) = {None} =>
                (BlockedStep /\ ~DryRunResult /\ dashboard' = dashboard)
           /\ DryRunResult =>
                (/\ out'.approval # None
                 /\ out'.approval \in GateLookup(op, GateArg))]_vars

\* a dry-run send_dm was blocked and the dashboard has no entry
C35_Witness ==
    /\ DRY_RUN
    /\ out # NoOut
    /\ out.op = "send_dm"
    /\ StartsWith(out.result, "ACTION BLOCKED")
    /\ out.dash = "none"
    /\ dashboard = << >>

(***************************************************************************)
(* C36: the dashboard entries of the outbound actions                      *)
(***************************************************************************)
\* the response of a gated operation that wrote its entry without the
\* dry-run tag ('Sent DM to @<user>', 'Posted to Instagram feed')
LoggedOutbound ==
    /\ out # NoOut
    /\ out.op \in GatedOps
    /\ out.dash = "written"
    /\ ~StartsWith(out.result, "[DRY-RUN]")

\* C36: an entry 'Sent DM to @<user>' or 'Posted to Instagram feed' is
\* appended only if the external effect completed, that is only if the result
\* of the operation is not an error.
C36_NoPhantomEntry ==
    LoggedOutbound => (out.effect # "none" /\ ~StartsWith(out.result, "ERROR"))

\* the same for post_to_feed alone, which looks at its result first
C36_PostLoggedOnlyIfDone ==
    (LoggedOutbound /\ out.op = "post_to_feed") =>
        (out.effect # "none" /\ ~StartsWith(out.result, "ERROR"))

(***************************************************************************)
(* C37: an approval withdrawn while the operation is under way             *)
(***************************************************************************)
\* the step performs the external effect of a gated operation
EffectStep == ExecStep /\ out'.effect # "none"

\* C37: under every interleaving of a gated operation with the human who
\* takes the approval record out of Approved, the external effect is
\* performed only while a lookup for the operation still finds an approved
\* record in Approved.
C37_NoEffectAfterWithdrawal ==
    [][EffectStep => GateLookup(out'.op, out'.arg) # {None}]_vars

(***************************************************************************)
(* C38: the dashboard entries for the records of the file-drop watcher     *)
(***************************************************************************)
\* the dashboard has a block of a watcher that names the record
ReportedByCreator(name) ==
    \E j \in 1..Len(dashboard) :
        Contains(dashboard[j], "- Task created: '" \o name \o "'")

\* C38: every FILE_DROP_<name>.md record the file-drop watcher has written
\* into Needs_Action, once its handler has returned, is named in a dashboard
\* entry appended by that watcher.
C38_FileDropReported ==
    kind = "inbox" =>
        \A i \in 1..Len(written) : ReportedByCreator(written[i][2])

=============================================================================
